---- MODULE Spec2Model ----
(***************************************************************************)
(* Relay: the store (pipelines, runs, connections, proposals, ontology     *)
(* tables), the pipeline engine, the scheduler, the query engine and the   *)
(* ontology manager, as state machines over the committed store state.     *)
(*                                                                         *)
(* Every `with get_db()` block of storage.py is one transaction and is     *)
(* one atomic step here.  A caller that makes several store calls is a     *)
(* sequence of steps with a program counter, so that other callers can     *)
(* run between its transactions.  Time is in seconds.                      *)
(***************************************************************************)
EXTENDS Integers, Sequences, FiniteSets, TLC

\* ------------------------------------------------------------------ bounds
MaxPipelines == 2    \* pipelines ever created
MaxRuns == 2         \* executions ever triggered through POST /pipeline/{id}/run
MaxClock == 1        \* seconds the engine's clock may advance
MaxConnections == 2  \* connections ever created
MaxDeletes == 2      \* DELETE /connection/{id} requests ever made
MaxProposals == 2    \* proposals ever saved
MaxReviews == 2      \* POST /proposal/{id}/review requests ever made
MaxEntities == 3     \* rows of ontology_entities
MaxTicks == 3        \* iterations of the scheduler loop
MaxKeys == 2         \* API keys ever generated
MaxExprLen == 2      \* tokens of a metric expression
MaxEvents == 4       \* rows of platform_events
MaxChunks == 3       \* chunks of a streamed source
MaxNameLen == 2      \* characters of a pipeline name given as text
MaxChunkCount == 1001 \* chunks of a source whose chunks are only counted
MaxUpdates == 2      \* calls of Storage.update_pipeline

\* ------------------------------------------------------------------ values
NoTime == 0 - 1      \* a NULL timestamp or duration column
NoId == 0            \* no pipeline / no run
NoText == "None"     \* a NULL text column
NoConnection == "None"   \* source.connection absent
ConnectionNames == {"warehouse", "crm"}
PipelineNames == {"Orders", "orders"}
Intervals == {"hourly", "daily", "weekly", "custom"}

\* timedelta(hours=1), timedelta(days=1), timedelta(days=7), in seconds
Hour == 3600
Day == 86400
Week == 604800
\* asyncio.sleep(60)
SleepSeconds == 60
\* the time between two checks: the sleep and whatever delays the loop
SleepDeltas == {SleepSeconds, Hour - 1, Hour, Day - 1, Day, Week - 1, Week}

SourceTypes == {"csv_url", "synthetic"}
StreamingSources == {"mysql", "postgres", "salesforce", "synthetic"}
Destinations == {"bucket/path"}
NoChunk == 0 - 1     \* a file that is no chunk file
NoFile == [dest |-> "None", ts |-> NoTime, chunk |-> NoChunk]

VARIABLES
    pipelines,     \* table pipelines, in created_at order
    nextPipeline,  \* pipelines created so far + 1 (ids are fresh uuids)
    runs,          \* table pipeline_runs, in id (autoincrement) order
    exec,          \* the calls of execute_pipeline; exec[r] is the call with run id r
    clock,         \* wall clock, seconds
    lastQuery,     \* outcome of the latest execute_query call
    connections,   \* table connections, in created_at order
    nextConnection,\* connections created so far + 1
    connReq,       \* the DELETE /connection/{id} requests
    proposals,     \* table ontology_proposals, in created_at order
    entities,      \* table ontology_entities
    reviews,       \* the POST /proposal/{id}/review requests
    sched,         \* the scheduler loop: checks made, the latest check
    apiKeys,       \* table api_keys, in id order; the raw key of row i is i
    require_auth,  \* settings.require_auth
    lastAuth,      \* the latest request to a guarded endpoint and its outcome
    relationships, \* table ontology_relationships
    metrics,       \* table ontology_metrics
    dimensions,    \* table ontology_dimensions
    sem,           \* the GET /ontology or POST /ontology/query request being answered
    relReq,        \* the POST /ontology/relationship request being answered
    propReq,       \* the POST /ontology/propose request being answered
    events,        \* table platform_events, in id order
    pw,            \* the _write_s3_parallel call in progress, or the latest one
    upd            \* the Storage.update_pipeline call in progress, or the latest one

connVars == <<connections, nextConnection, connReq>>
ontVars == <<proposals, entities, reviews>>
engineVars == <<runs, exec, clock, lastQuery>>
authVars == <<apiKeys, require_auth, lastAuth>>
semVars == <<relationships, metrics, dimensions, sem, relReq>>
lateVars == <<propReq, events, pw, upd>>
moreVars == <<authVars, semVars, lateVars>>
otherVars == <<connVars, ontVars, sched, moreVars>>

vars == <<pipelines, nextPipeline, runs, exec, clock, lastQuery, connVars, ontVars, sched,
          moreVars>>

\* ------------------------------------------------------------- dictionaries
\* dict.update: the keys of g overwrite or extend f
DictUpdate(f, g) ==
    [k \in (DOMAIN f) \cup (DOMAIN g) |-> IF k \in DOMAIN g THEN g[k] ELSE f[k]]

\* dict.get(key, default)
DictGet(f, k, default) == IF k \in DOMAIN f THEN f[k] ELSE default

EmptyDict == [k \in {} |-> NoText]

Min(S) == CHOOSE x \in S : \A y \in S : x <= y

\* ------------------------------------------------------------------ store
PipelineIdsIn(ps) == {ps[i].id : i \in DOMAIN ps}

PipelineRow(ps, pid) == ps[CHOOSE i \in DOMAIN ps : ps[i].id = pid]

\* Storage.save_pipeline
save_pipeline(ps, pipeline) == Append(ps, pipeline)

\* Storage.get_pipeline: the pipeline with its runs in id order, or None
RunsOf(rs, pid) == SelectSeq(rs, LAMBDA r : r.pipeline_id = pid)

\* Storage.add_run: only these keys of the run dict are stored at creation
add_run(rs, pid, run) ==
    Append(rs, [run_id |-> run["run_id"],
                pipeline_id |-> pid,
                status |-> DictGet(run, "status", "running"),
                started_at |-> DictGet(run, "started_at", NoTime),
                progress |-> DictGet(run, "progress", "Starting..."),
                streaming |-> DictGet(run, "streaming", FALSE),
                completed_at |-> NoTime,
                output_file |-> NoFile,
                duration_seconds |-> NoTime,
                error |-> NoText,
                traceback |-> NoText,
                metadata_generated |-> FALSE])

\* the body of the loop of Storage.update_run on one row
ApplyRunUpdates(row, updates) ==
    [k \in DOMAIN row |->
        IF k \in DOMAIN updates /\ k \notin {"run_id", "pipeline_id"}
        THEN updates[k] ELSE row[k]]

\* update_run with the run_id filter dropped: the first row of the pipeline
RunRowIndexAnyRun(rs, pid, rid) ==
    LET hits == {i \in DOMAIN rs : rs[i].pipeline_id = pid}
    IN IF hits = {} THEN 0 ELSE Min(hits)

\* the row Storage.update_run selects: .filter(pipeline_id, run_id).first()
RunRowIndex(rs, pid, rid) ==
    LET hits == {i \in DOMAIN rs : rs[i].pipeline_id = pid /\ rs[i].run_id = rid}
    IN IF hits = {} THEN 0 ELSE Min(hits)

\* Storage.update_run: no row -> None and nothing changes
update_run(rs, pid, rid, updates) ==
    LET i == RunRowIndex(rs, pid, rid)
    IN IF i = 0 THEN rs ELSE [rs EXCEPT ![i] = ApplyRunUpdates(rs[i], updates)]

\* Storage.delete_pipeline: the runs of the pipeline, then the pipeline
delete_pipeline_runs(rs, pid) == SelectSeq(rs, LAMBDA r : r.pipeline_id # pid)
delete_pipeline_row(ps, pid) == SelectSeq(ps, LAMBDA p : p.id # pid)

\* ------------------------------------------------------- pipeline routes
NewPipeline(id, name, source_type, connection, enabled, interval) ==
    [id |-> id,
     name |-> name,
     source |-> [type |-> source_type, connection |-> connection],
     destination |-> CHOOSE d \in Destinations : TRUE,
     schedule |-> [enabled |-> enabled, interval |-> interval],
     last_scheduled_run |-> NoTime]

\* POST /pipeline/create: a fresh id, then Storage.save_pipeline
create_pipeline(name, source_type, connection, enabled, interval) ==
    /\ nextPipeline <= MaxPipelines
    /\ pipelines' = save_pipeline(pipelines,
            NewPipeline(nextPipeline, name, source_type, connection, enabled, interval))
    /\ nextPipeline' = nextPipeline + 1
    /\ UNCHANGED <<runs, exec, clock, lastQuery, otherVars>>

\* DELETE /pipeline/{id}: 404 unless the pipeline exists, then Storage.delete_pipeline
delete_pipeline(pid) ==
    /\ pid \in PipelineIdsIn(pipelines)
    /\ runs' = delete_pipeline_runs(runs, pid)
    /\ pipelines' = delete_pipeline_row(pipelines, pid)
    /\ UNCHANGED <<nextPipeline, exec, clock, lastQuery, otherVars>>

NewExec(pid, by, at) ==
    [pc |-> "start", pipeline_id |-> pid, by |-> by, dispatched_at |-> at,
     streaming |-> FALSE, destination |-> "None", run |-> EmptyDict,
     output |-> NoFile, exc |-> NoText, outcome |-> "pending"]

\* POST /pipeline/{id}/run: 404 unless the pipeline exists; a fresh run id is
\* handed to a background task running execute_pipeline
run_pipeline(pid) ==
    /\ pid \in PipelineIdsIn(pipelines)
    /\ Len(exec) < MaxRuns
    /\ exec' = Append(exec, NewExec(pid, "api", NoTime))
    /\ UNCHANGED <<pipelines, nextPipeline, runs, clock, lastQuery, otherVars>>

\* ------------------------------------------------------- pipeline engine
\* the engine moves to the except block of execute_pipeline with exception e
Raise(x, e) == [x EXCEPT !.pc = "failed", !.exc = e]

\* execute_pipeline, lines 84-106: load the pipeline, choose the mode, build
\* the run dict; a missing pipeline returns at once and leaves no row
execute_pipeline_load(r) ==
    /\ exec[r].pc = "start"
    /\ LET pid == exec[r].pipeline_id IN
       IF pid \notin PipelineIdsIn(pipelines)
       THEN exec' = [exec EXCEPT ![r].pc = "done", ![r].outcome = "returned"]
       ELSE LET pipeline == PipelineRow(pipelines, pid)
                use_streaming == pipeline.source.type \in StreamingSources
            IN exec' = [exec EXCEPT
                    ![r].pc = "add_run",
                    ![r].streaming = use_streaming,
                    ![r].destination = pipeline.destination,
                    ![r].run = [run_id |-> r, status |-> "running",
                                started_at |-> clock, progress |-> "Starting...",
                                streaming |-> use_streaming]]
    /\ UNCHANGED <<pipelines, nextPipeline, runs, clock, lastQuery, otherVars>>

\* execute_pipeline, line 107: the running row is appended
execute_pipeline_add_run(r) ==
    /\ exec[r].pc = "add_run"
    /\ runs' = add_run(runs, exec[r].pipeline_id, exec[r].run)
    /\ exec' = [exec EXCEPT ![r].pc =
                    IF exec[r].streaming THEN "stream_fetch" ELSE "fetch"]
    /\ UNCHANGED <<pipelines, nextPipeline, clock, lastQuery, otherVars>>

\* run["progress"] = text; storage.update_run(...); then a call that touches
\* no store row.  The write commits or the store raises (the transaction is
\* rolled back); after a committed write the call returns or raises e.
ProgressThenCall(r, at, text, next, e) ==
    /\ exec[r].pc = at
    /\ LET run == DictUpdate(exec[r].run, [progress |-> text]) IN
       \/ /\ runs' = update_run(runs, exec[r].pipeline_id, r, run)
          /\ exec' = [exec EXCEPT ![r].run = run, ![r].pc = next]
       \/ /\ runs' = update_run(runs, exec[r].pipeline_id, r, run)
          /\ e # NoText
          /\ exec' = [exec EXCEPT ![r] = Raise([@ EXCEPT !.run = run], e)]
       \/ /\ runs' = runs
          /\ exec' = [exec EXCEPT ![r] = Raise([@ EXCEPT !.run = run], "store_error")]
    /\ UNCHANGED <<pipelines, nextPipeline, clock, lastQuery, otherVars>>

\* _write_s3 / write_destination_streaming: the object is named by the
\* destination path and the second of the write
WriteDestination(r, at, next) ==
    /\ exec[r].pc = at
    /\ \/ exec' = [exec EXCEPT ![r].pc = next,
                       ![r].output = [dest |-> exec[r].destination, ts |-> clock,
                                      chunk |-> NoChunk]]
       \/ exec' = [exec EXCEPT ![r] = Raise(@, "write_error")]
    /\ UNCHANGED <<pipelines, nextPipeline, runs, clock, lastQuery, otherVars>>

\* the run dict after run.update({... "status": "success" ...}) and the duration
SuccessRun(run, output, now) ==
    DictUpdate(run, [status |-> "success", completed_at |-> now,
                     output_file |-> output, progress |-> "Complete",
                     duration_seconds |-> now - run["started_at"]])

\* _execute_inmemory, lines 132-137: "Step 1: Fetch data from source"
inmemory_fetch(r) ==
    ProgressThenCall(r, "fetch", "Fetching source data...", "progress_write", "fetch_error")

\* _execute_inmemory, lines 139-141
inmemory_progress_write(r) ==
    ProgressThenCall(r, "progress_write", "Writing rows to destination...", "write", NoText)

\* _execute_inmemory, lines 143-147
inmemory_write(r) == WriteDestination(r, "write", "complete")

\* _execute_inmemory, lines 150-183: "Step 3: Complete", then the metadata
\* generation, whose failure is logged and ends the call
inmemory_complete(r) ==
    /\ exec[r].pc = "complete"
    /\ LET run == SuccessRun(exec[r].run, exec[r].output, clock) IN
       \/ /\ runs' = update_run(runs, exec[r].pipeline_id, r, run)
          /\ exec' = [exec EXCEPT ![r].run = run, ![r].pc = "metadata_update"]
       \/ /\ runs' = update_run(runs, exec[r].pipeline_id, r, run)
          /\ exec' = [exec EXCEPT ![r].run = run, ![r].pc = "done",
                                  ![r].outcome = "returned"]
       \/ /\ runs' = runs
          /\ exec' = [exec EXCEPT ![r] = Raise([@ EXCEPT !.run = run], "store_error")]
    /\ UNCHANGED <<pipelines, nextPipeline, clock, lastQuery, otherVars>>

\* the run dict of lines 186-188
MetadataRun(run) == DictUpdate(run, [metadata_generated |-> TRUE])

\* the metadata update without its own try/except: a store error reaches the
\* except block of execute_pipeline
inmemory_metadata_update_unguarded(r) ==
    /\ exec[r].pc = "metadata_update"
    /\ LET run == MetadataRun(exec[r].run) IN
       \/ /\ runs' = update_run(runs, exec[r].pipeline_id, r, run)
          /\ exec' = [exec EXCEPT ![r].run = run, ![r].pc = "done",
                                  ![r].outcome = "returned"]
       \/ /\ runs' = runs
          /\ exec' = [exec EXCEPT ![r] = Raise([@ EXCEPT !.run = run], "store_error")]
    /\ UNCHANGED <<pipelines, nextPipeline, clock, lastQuery, otherVars>>

\* _execute_inmemory, lines 186-193: the run is updated with the metadata
\* info; a store error here is logged as well
inmemory_metadata_update(r) ==
    /\ exec[r].pc = "metadata_update"
    /\ LET run == MetadataRun(exec[r].run) IN
       /\ exec' = [exec EXCEPT ![r].run = run, ![r].pc = "done", ![r].outcome = "returned"]
       /\ \/ runs' = update_run(runs, exec[r].pipeline_id, r, run)
          \/ runs' = runs
    /\ UNCHANGED <<pipelines, nextPipeline, clock, lastQuery, otherVars>>

\* _execute_streaming, lines 199-203
streaming_fetch(r) ==
    ProgressThenCall(r, "stream_fetch", "Starting streaming pipeline...",
                     "stream_progress", "fetch_error")

\* _execute_streaming, lines 205-207
streaming_progress(r) ==
    ProgressThenCall(r, "stream_progress", "Streaming data...", "stream_write", NoText)

\* _execute_streaming, lines 209-213
streaming_write(r) == WriteDestination(r, "stream_write", "stream_complete")

\* _execute_streaming, lines 215-231: "Step 3: Complete"
streaming_complete(r) ==
    /\ exec[r].pc = "stream_complete"
    /\ LET run == SuccessRun(exec[r].run, exec[r].output, clock) IN
       \/ /\ runs' = update_run(runs, exec[r].pipeline_id, r, run)
          /\ exec' = [exec EXCEPT ![r].run = run, ![r].pc = "done",
                                  ![r].outcome = "returned"]
       \/ /\ runs' = runs
          /\ exec' = [exec EXCEPT ![r] = Raise([@ EXCEPT !.run = run], "store_error")]
    /\ UNCHANGED <<pipelines, nextPipeline, clock, lastQuery, otherVars>>

\* the run dict after the run.update of the except block
FailedRun_without_completed_at(run, e, now) ==
    DictUpdate(run, [status |-> "failed", error |-> e, traceback |-> e, progress |-> "Failed"])
FailedRun(run, e, now) ==
    DictUpdate(run, [status |-> "failed", completed_at |-> now, error |-> e,
                     traceback |-> e, progress |-> "Failed"])

\* an except block that logs and re-raises instead of recording the failure
execute_pipeline_reraise(r) ==
    /\ exec[r].pc = "failed"
    /\ exec' = [exec EXCEPT ![r].pc = "done", ![r].outcome = "raised"]
    /\ UNCHANGED <<pipelines, nextPipeline, runs, clock, lastQuery, otherVars>>

\* execute_pipeline, lines 117-126: the except block records the failure and
\* the call returns
execute_pipeline_except(r) ==
    /\ exec[r].pc = "failed"
    /\ LET run == FailedRun(exec[r].run, exec[r].exc, clock) IN
       /\ runs' = update_run(runs, exec[r].pipeline_id, r, run)
       /\ exec' = [exec EXCEPT ![r].run = run, ![r].pc = "done", ![r].outcome = "returned"]
    /\ UNCHANGED <<pipelines, nextPipeline, clock, lastQuery, otherVars>>

\* one second passes
Tick ==
    /\ clock < MaxClock
    /\ clock' = clock + 1
    /\ UNCHANGED <<pipelines, nextPipeline, runs, exec, lastQuery, otherVars>>

\* ------------------------------------------------------------ query engine
NoQuery ==
    [pipeline |-> NoId, result |-> "none", run_id |-> NoId, output_file |-> NoFile,
     pipelines |-> <<>>, failed |-> NoId, views |-> <<>>, executed |-> FALSE]

\* execute_query taking successful_runs[0], the oldest success run
SelectFirstRun(prs) ==
    LET successful_runs == SelectSeq(prs, LAMBDA r : r.status = "success") IN
    IF Len(successful_runs) = 0
    THEN [result |-> "no_successful_runs", run_id |-> NoId, output_file |-> NoFile]
    ELSE LET latest_run == successful_runs[1] IN
         IF latest_run.output_file = NoFile
         THEN [result |-> "no_output_file", run_id |-> latest_run.run_id, output_file |-> NoFile]
         ELSE [result |-> "ok", run_id |-> latest_run.run_id,
               output_file |-> latest_run.output_file]

\* QueryEngine.execute_query, lines 69-85, for one pipeline id
SelectRun(prs) ==
    LET successful_runs == SelectSeq(prs, LAMBDA r : r.status = "success") IN
    IF Len(successful_runs) = 0
    THEN [result |-> "no_successful_runs", run_id |-> NoId, output_file |-> NoFile]
    ELSE LET latest_run == successful_runs[Len(successful_runs)] IN
         IF latest_run.output_file = NoFile
         THEN [result |-> "no_output_file", run_id |-> latest_run.run_id, output_file |-> NoFile]
         ELSE [result |-> "ok", run_id |-> latest_run.run_id,
               output_file |-> latest_run.output_file]

execute_query(pid) ==
    /\ pid \in PipelineIdsIn(pipelines)
    /\ LET sel == SelectRun(RunsOf(runs, pid)) IN
       lastQuery' = [pipeline |-> pid, result |-> sel.result, run_id |-> sel.run_id,
                     output_file |-> sel.output_file]
    /\ UNCHANGED <<pipelines, nextPipeline, runs, exec, clock, otherVars>>

\* a pipeline name as text: a sequence of characters, with an upper-case
\* letter, a lower-case letter, a digit, the two separators, a character that
\* is none of these, and the underscore
Chars == {"A", "a", "7", " ", "-", "@", "_"}
Names == UNION {[1..n -> Chars] : n \in 0..MaxNameLen}

\* str.lower, str.replace of one character, str.isdigit
lower(name) == [i \in DOMAIN name |-> IF name[i] = "A" THEN "a" ELSE name[i]]
replace(name, old, new) == [i \in DOMAIN name |-> IF name[i] = old THEN new ELSE name[i]]
isdigit(c) == c = "7"

\* re.sub(r"[^a-z0-9_]", "", table)
re_sub(table) == SelectSeq(table, LAMBDA c : c \in {"a", "7", "_"})

\* utils.sanitize_table_name: the table-name derivation
sanitize_table_name(name) ==
    LET table == re_sub(replace(replace(lower(name), " ", "_"), "-", "_")) IN
    IF table # <<>> /\ isdigit(table[1]) THEN <<"t", "_">> \o table ELSE table

\* execute_query, lines 87-91: the name of the view of a pipeline; the name
\* is not empty
table_name(name) ==
    LET table == lower(replace(replace(name, " ", "_"), "-", "_")) IN
    IF isdigit(table[1]) THEN <<"t", "_">> \o table ELSE table

\* execute_query, lines 66-100: the loop over the listed pipelines, which
\* raises at the first pipeline that is missing, has no success run or no
\* output_file, and else registers its view; table_map holds the views
\* registered so far.  The reads of the listed pipelines are taken together.
RECURSIVE load_views(_, _, _, _)
load_views(ps, rs, pids, table_map) ==
    IF pids = <<>> THEN [result |-> "ok", failed |-> NoId, views |-> table_map]
    ELSE LET pipe_id == Head(pids) IN
         IF pipe_id \notin PipelineIdsIn(ps)
         THEN [result |-> "pipeline_not_found", failed |-> pipe_id, views |-> table_map]
         ELSE LET pipeline == PipelineRow(ps, pipe_id)
                  sel == SelectRun(RunsOf(rs, pipe_id))
              IN IF sel.result # "ok"
                 THEN [result |-> sel.result, failed |-> pipe_id, views |-> table_map]
                 ELSE IF pipeline.name = <<>>
                 THEN [result |-> "IndexError", failed |-> pipe_id, views |-> table_map]
                 ELSE IF \E i \in DOMAIN table_map :
                            table_map[i].view = table_name(pipeline.name)
                 THEN [result |-> "CatalogException", failed |-> pipe_id, views |-> table_map]
                 ELSE load_views(ps, rs, Tail(pids),
                          Append(table_map, [pipeline |-> pipe_id,
                                             view |-> table_name(pipeline.name),
                                             file |-> sel.output_file]))

\* the views of a call and whether line 108 executed the caller's SQL
views_loaded(ps, rs, pids) == load_views(ps, rs, pids, <<>>)

\* QueryEngine.execute_query(pipelines, sql): the views are registered and
\* the SQL is executed
execute_query_pipelines(pids) ==
    /\ LET loaded == views_loaded(pipelines, runs, pids) IN
       lastQuery' = [pipelines |-> pids, result |-> loaded.result, failed |-> loaded.failed,
                     views |-> loaded.views, executed |-> loaded.result = "ok"]
    /\ UNCHANGED <<pipelines, nextPipeline, runs, exec, clock, otherVars>>

\* ------------------------------------------------------------ connections
ConnectionIdsIn(cs) == {cs[i].id : i \in DOMAIN cs}

\* Storage.get_connection / get_connection_by_name
ConnectionRow(cs, cid) == cs[CHOOSE i \in DOMAIN cs : cs[i].id = cid]
get_connection_by_name(cs, name) == {i \in DOMAIN cs : cs[i].name = name}

\* Storage.delete_connection
delete_connection(cs, cid) == SelectSeq(cs, LAMBDA c : c.id # cid)

\* Storage.list_pipelines_using_connection
list_pipelines_using_connection(ps, connection_name) ==
    {i \in DOMAIN ps : ps[i].source.connection = connection_name}

\* POST /connection/create: 409 if the name is taken, else save_connection
\* with a fresh id (the name column is unique as well)
create_connection(name) ==
    /\ nextConnection <= MaxConnections
    /\ get_connection_by_name(connections, name) = {}
    /\ connections' = Append(connections, [id |-> nextConnection, name |-> name])
    /\ nextConnection' = nextConnection + 1
    /\ UNCHANGED <<pipelines, nextPipeline, engineVars, connReq, ontVars, sched, moreVars>>

\* DELETE /connection/{id}, lines 83-85: get_connection, 404 if absent
delete_connection_get(cid) ==
    /\ Len(connReq) < MaxDeletes
    /\ connReq' = Append(connReq,
           IF cid \in ConnectionIdsIn(connections)
           THEN [pc |-> "check", id |-> cid,
                 name |-> ConnectionRow(connections, cid).name, response |-> 0]
           ELSE [pc |-> "done", id |-> cid, name |-> NoText, response |-> 404])
    /\ UNCHANGED <<pipelines, nextPipeline, engineVars, connections, nextConnection, ontVars, sched, moreVars>>

\* the route without the in-use check
delete_connection_check_skipped(q) ==
    /\ connReq[q].pc = "check"
    /\ connReq' = [connReq EXCEPT ![q].pc = "delete"]
    /\ UNCHANGED <<pipelines, nextPipeline, engineVars, connections, nextConnection, ontVars, sched, moreVars>>

\* DELETE /connection/{id}, lines 87-93: 409 if a pipeline uses the name
delete_connection_check(q) ==
    /\ connReq[q].pc = "check"
    /\ connReq' = IF list_pipelines_using_connection(pipelines, connReq[q].name) # {}
                  THEN [connReq EXCEPT ![q].pc = "done", ![q].response = 409]
                  ELSE [connReq EXCEPT ![q].pc = "delete"]
    /\ UNCHANGED <<pipelines, nextPipeline, engineVars, connections, nextConnection, ontVars, sched, moreVars>>

\* DELETE /connection/{id}, lines 95-96: Storage.delete_connection, then 200
delete_connection_delete(q) ==
    /\ connReq[q].pc = "delete"
    /\ connections' = delete_connection(connections, connReq[q].id)
    /\ connReq' = [connReq EXCEPT ![q].pc = "done", ![q].response = 200]
    /\ UNCHANGED <<pipelines, nextPipeline, engineVars, nextConnection, ontVars, sched, moreVars>>

\* ------------------------------------------------------------ ontology
\* OntologyManager._normalize_entity_name on the pipeline names of the model:
\* lower(), strip(), " " and "-" to "_", then every character outside
\* [a-z0-9_] removed
normalize_entity_name(name) ==
    CASE name = "Orders" -> "orders"
      [] name = "orders" -> "orders"
      [] OTHER -> name

\* Storage.get_entity_by_name
get_entity_by_name(es, name) == {i \in DOMAIN es : es[i].name = name}

\* Storage.save_entity; the name column is unique, so the commit raises
\* IntegrityError when the name is taken and the table is left as it was
save_entity_ok(es, entity) == get_entity_by_name(es, entity.name) = {}
save_entity(es, entity) == Append(es, entity)

\* Storage.update_proposal
update_proposal(prs, prop_id, status, reviewed_by) ==
    [i \in DOMAIN prs |->
        IF prs[i].id = prop_id
        THEN [prs[i] EXCEPT !.status = status, !.reviewed_by = reviewed_by]
        ELSE prs[i]]

\* _heuristic_propose, lines 161-175: the entity payload of a pipeline
EntityPayload(pipeline) ==
    [name |-> normalize_entity_name(pipeline.name), pipeline_id |-> pipeline.id,
     status |-> "active", proposed_by |-> "heuristic"]

\* propose_for_pipeline with require_auth set: the entity proposal of the
\* pipeline is saved as pending
propose_for_pipeline(pid) ==
    /\ pid \in PipelineIdsIn(pipelines)
    /\ Len(proposals) < MaxProposals
    /\ proposals' = Append(proposals,
           [id |-> Len(proposals) + 1, proposal_type |-> "entity",
            payload |-> EntityPayload(PipelineRow(pipelines, pid)),
            status |-> "pending", reviewed_by |-> NoText])
    /\ UNCHANGED <<pipelines, nextPipeline, engineVars, connVars, entities, reviews, sched, moreVars>>

\* Storage.record_event: a row is appended to platform_events
record_event(evs, event_type, pipeline_id) ==
    Append(evs, [id |-> Len(evs) + 1, event_type |-> event_type, pipeline_id |-> pipeline_id])

\* POST /entity: 400 without the pipeline, 409 if the name is taken, else
\* save_entity with a fresh id, then record_event("entity_created")
create_entity(name, pid) ==
    /\ pid \in PipelineIdsIn(pipelines)
    /\ get_entity_by_name(entities, name) = {}
    /\ Len(entities) < MaxEntities
    /\ Len(events) < MaxEvents
    /\ entities' = save_entity(entities,
           [id |-> Len(entities) + 1, name |-> name, pipeline_id |-> pid,
            status |-> "active", proposed_by |-> "user"])
    /\ events' = record_event(events, "entity_created", pid)
    /\ UNCHANGED <<pipelines, nextPipeline, engineVars, connVars, proposals, reviews, sched,
                   authVars, semVars, propReq, pw, upd>>

\* approve_proposal lines 76-80, reject_proposal lines 97-101: get_proposal,
\* ValueError (HTTP 400) unless the proposal exists and is pending
review_proposal(action, prop_id) ==
    /\ Len(reviews) < MaxReviews
    /\ LET hit == {i \in DOMAIN proposals : proposals[i].id = prop_id} IN
       reviews' = Append(reviews,
           IF hit = {}
           THEN [pc |-> "done", action |-> action, proposal |-> prop_id,
                 response |-> "not_found"]
           ELSE IF \E i \in hit : proposals[i].status # "pending"
           THEN [pc |-> "done", action |-> action, proposal |-> prop_id,
                 response |-> "not_pending"]
           ELSE [pc |-> "update", action |-> action, proposal |-> prop_id,
                 response |-> "none"])
    /\ UNCHANGED <<pipelines, nextPipeline, engineVars, connVars, proposals, entities, sched, moreVars>>

\* approve_proposal lines 82-86, reject_proposal lines 103-113: update_proposal
review_update(v) ==
    /\ reviews[v].pc = "update"
    /\ IF reviews[v].action = "approve"
       THEN /\ proposals' = update_proposal(proposals, reviews[v].proposal, "approved", "user")
            /\ reviews' = [reviews EXCEPT ![v].pc = "materialize"]
       ELSE /\ proposals' = update_proposal(proposals, reviews[v].proposal, "rejected", "user")
            /\ reviews' = [reviews EXCEPT ![v].pc = "done", ![v].response = "rejected"]
    /\ UNCHANGED <<pipelines, nextPipeline, engineVars, connVars, entities, sched, moreVars>>

\* approve_proposal lines 88-91 and _materialize_proposal: the payload read
\* at the start is saved with a fresh id by save_entity or save_relationship;
\* IntegrityError is no ValueError and leaves the route as HTTP 500
review_materialize(v) ==
    /\ reviews[v].pc = "materialize"
    /\ LET prop == proposals[CHOOSE i \in DOMAIN proposals : proposals[i].id = reviews[v].proposal]
       IN IF prop.proposal_type = "entity"
          THEN LET entity == [id |-> Len(entities) + 1, name |-> prop.payload.name,
                              pipeline_id |-> prop.payload.pipeline_id,
                              status |-> prop.payload.status,
                              proposed_by |-> prop.payload.proposed_by]
               IN /\ IF save_entity_ok(entities, entity)
                     THEN /\ entities' = save_entity(entities, entity)
                          /\ reviews' = [reviews EXCEPT ![v].pc = "done", ![v].response = "approved"]
                     ELSE /\ entities' = entities
                          /\ reviews' = [reviews EXCEPT ![v].pc = "done", ![v].response = "error"]
                  /\ UNCHANGED relationships
          ELSE LET rel == [name |-> prop.payload.name, from_entity |-> prop.payload.from_entity,
                           to_entity |-> prop.payload.to_entity, status |-> prop.payload.status]
               IN /\ IF \A r \in relationships : r.name # rel.name
                     THEN /\ relationships' = relationships \cup {rel}
                          /\ reviews' = [reviews EXCEPT ![v].pc = "done", ![v].response = "approved"]
                     ELSE /\ relationships' = relationships
                          /\ reviews' = [reviews EXCEPT ![v].pc = "done", ![v].response = "error"]
                  /\ UNCHANGED entities
    /\ UNCHANGED <<pipelines, nextPipeline, engineVars, connVars, proposals, sched, authVars,
                   metrics, dimensions, sem, relReq, lateVars>>

\* ------------------------------------------------------------ auth
\* the X-API-Key header: absent, or the raw key of row k (a k beyond the
\* table is a key that was never issued)
NoKey == 0
Keys == 0..(MaxKeys + 1)
Roles == {"reader", "writer", "admin"}
ROLE_HIERARCHY == [reader |-> 0, writer |-> 1, admin |-> 2]

NoRecord == [id |-> NoKey, role |-> "None", active |-> FALSE]
NoRequest == [route |-> "none", key |-> NoKey, status |-> 0, detail |-> "none", ran |-> FALSE]

\* APIKey.to_dict: the row as a dict, with the role it was issued with
APIKey_to_dict(row) == [id |-> row.id, role |-> row.role, active |-> row.active]

\* .filter(APIKey.key_hash == key_hash, APIKey.active == True)
ActiveKeyRows(keys, api_key) ==
    {i \in DOMAIN keys : keys[i].id = api_key /\ keys[i].active}

\* auth.validate_api_key
validate_api_key(keys, api_key) == ActiveKeyRows(keys, api_key) # {}

\* auth.get_api_key_record
get_api_key_record(keys, api_key) ==
    IF ActiveKeyRows(keys, api_key) = {} THEN NoRecord
    ELSE APIKey_to_dict(keys[Min(ActiveKeyRows(keys, api_key))])

Admitted == [status |-> 200, detail |-> "ok"]

\* auth.require_api_key: what the dependency answers
require_api_key(auth, keys, api_key) ==
    IF ~auth THEN Admitted
    ELSE IF api_key = NoKey THEN [status |-> 401, detail |-> "Missing API key"]
    ELSE IF ~validate_api_key(keys, api_key)
         THEN [status |-> 403, detail |-> "Invalid or revoked API key"]
    ELSE Admitted

\* require_role with the comparison turned around
require_role_inverted(min_role, auth, keys, api_key) ==
    LET record == get_api_key_record(keys, api_key) IN
    IF ~auth THEN Admitted
    ELSE IF api_key = NoKey THEN [status |-> 401, detail |-> "Missing API key"]
    ELSE IF record = NoRecord
         THEN [status |-> 403, detail |-> "Invalid or revoked API key"]
    ELSE IF ROLE_HIERARCHY[record.role] > ROLE_HIERARCHY[min_role]
         THEN [status |-> 403, detail |-> "Insufficient permissions"]
    ELSE Admitted

\* auth.require_role(min_role): what the dependency answers
require_role(min_role, auth, keys, api_key) ==
    LET record == get_api_key_record(keys, api_key) IN
    IF ~auth THEN Admitted
    ELSE IF api_key = NoKey THEN [status |-> 401, detail |-> "Missing API key"]
    ELSE IF record = NoRecord
         THEN [status |-> 403, detail |-> "Invalid or revoked API key"]
    ELSE IF ROLE_HIERARCHY[record.role] < ROLE_HIERARCHY[min_role]
         THEN [status |-> 403, detail |-> "Insufficient permissions"]
    ELSE Admitted

\* the record of a request the dependency answered with `dep`; the handler
\* ran only if the dependency admitted the request
Answered(route, api_key, dep, status) ==
    [route |-> route, key |-> api_key,
     status |-> IF dep = Admitted THEN status ELSE dep.status,
     detail |-> dep.detail, ran |-> dep = Admitted]

\* REQUIRE_AUTH is set
enable_auth ==
    /\ ~require_auth
    /\ require_auth' = TRUE
    /\ UNCHANGED <<pipelines, nextPipeline, engineVars, connVars, ontVars, sched,
                   apiKeys, lastAuth,
                 semVars, lateVars>>

\* POST /admin/api-keys: require_role("admin"), then auth.generate_api_key
create_api_key(api_key, role) ==
    /\ Len(apiKeys) < MaxKeys
    /\ LET dep == require_role("admin", require_auth, apiKeys, api_key) IN
       /\ lastAuth' = Answered("POST /admin/api-keys", api_key, dep, 200)
       /\ apiKeys' = IF dep = Admitted
                     THEN Append(apiKeys, [id |-> Len(apiKeys) + 1, role |-> role,
                                           active |-> TRUE])
                     ELSE apiKeys
    /\ UNCHANGED <<pipelines, nextPipeline, engineVars, connVars, ontVars, sched,
                   require_auth,
                 semVars, lateVars>>

\* DELETE /admin/api-keys/{key_id}: require_role("admin"), then
\* Storage.deactivate_api_key, 404 without the row
deactivate_api_key(api_key, key_id) ==
    /\ LET dep == require_role("admin", require_auth, apiKeys, api_key)
           found == key_id \in DOMAIN apiKeys
       IN /\ lastAuth' = Answered("DELETE /admin/api-keys", api_key, dep,
                                  IF found THEN 200 ELSE 404)
          /\ apiKeys' = IF dep = Admitted /\ found
                        THEN [apiKeys EXCEPT ![key_id].active = FALSE]
                        ELSE apiKeys
    /\ UNCHANGED <<pipelines, nextPipeline, engineVars, connVars, ontVars, sched,
                   require_auth,
                 semVars, lateVars>>

\* POST /connection/create over HTTP: require_role("writer"), then the route
post_connection_create(api_key, name) ==
    /\ nextConnection <= MaxConnections
    /\ LET dep == require_role("writer", require_auth, apiKeys, api_key)
           taken == get_connection_by_name(connections, name) # {}
           saved == dep = Admitted /\ ~taken
       IN /\ lastAuth' = Answered("POST /connection/create", api_key, dep,
                                  IF taken THEN 409 ELSE 200)
          /\ connections' = IF saved
                            THEN Append(connections, [id |-> nextConnection, name |-> name])
                            ELSE connections
          /\ nextConnection' = IF saved THEN nextConnection + 1 ELSE nextConnection
    /\ UNCHANGED <<pipelines, nextPipeline, engineVars, connReq, ontVars, sched,
                   apiKeys, require_auth,
                 semVars, lateVars>>

\* POST /pipeline/create over HTTP: Depends(require_api_key), then the route
post_pipeline_create(api_key) ==
    /\ nextPipeline <= MaxPipelines
    /\ LET dep == require_api_key(require_auth, apiKeys, api_key) IN
       /\ lastAuth' = Answered("POST /pipeline/create", api_key, dep, 200)
       /\ pipelines' = IF dep = Admitted
                       THEN save_pipeline(pipelines,
                              NewPipeline(nextPipeline, "Orders", "csv_url", NoConnection,
                                          FALSE, "daily"))
                       ELSE pipelines
       /\ nextPipeline' = IF dep = Admitted THEN nextPipeline + 1 ELSE nextPipeline
    /\ UNCHANGED <<engineVars, connVars, ontVars, sched, apiKeys, require_auth,
                 semVars, lateVars>>

\* DELETE /pipeline/{id} over HTTP: Depends(require_api_key), then the route
delete_pipeline_request(api_key, pid) ==
    /\ LET dep == require_api_key(require_auth, apiKeys, api_key)
           found == pid \in PipelineIdsIn(pipelines)
           deleted == dep = Admitted /\ found
       IN /\ lastAuth' = Answered("DELETE /pipeline", api_key, dep,
                                  IF found THEN 200 ELSE 404)
          /\ pipelines' = IF deleted THEN delete_pipeline_row(pipelines, pid) ELSE pipelines
          /\ runs' = IF deleted THEN delete_pipeline_runs(runs, pid) ELSE runs
    /\ UNCHANGED <<nextPipeline, exec, clock, lastQuery, connVars, ontVars, sched,
                   apiKeys, require_auth,
                 semVars, lateVars>>

\* ------------------------------------------------------------ semantic layer
MetricNames == {"a", "b", "c"}
EntityNames == {"orders", "customers"}

\* a metric expression is a sequence of tokens: SQL text, or ${name}
Text(t) == [kind |-> "text", text |-> t]
\* SQL text over a column of an entity, written entity_name.col
Col(entity_name) == [kind |-> "col", text |-> entity_name]
Ref(name) == [kind |-> "ref", text |-> name]
Tokens == {Text("COUNT(*)")} \cup {Ref(n) : n \in MetricNames}
Expressions == UNION {[1..n -> Tokens] : n \in 1..MaxExprLen}

CircularMetric == "Circular metric reference detected"
UnknownMetric == "Unknown metric"

NoSnapshot ==
    [entities |-> <<>>, relationships |-> {}, metrics |-> {}, dimensions |-> {},
     entity_pipeline_map |-> EmptyDict]
NoSem ==
    [pc |-> "idle", kind |-> "none", metrics |-> <<>>, dimensions |-> <<>>,
     snapshot |-> NoSnapshot, error |-> "none", exprs |-> <<>>, root |-> NoText,
     joined |-> {}, submitted |-> FALSE, calls |-> 0, stores |-> {},
     needed_entities |-> {}, join_clauses |-> <<>>]

\* a committed state of the four ontology tables
Store(es, rs, ms, ds) ==
    [entities |-> es, relationships |-> rs, metrics |-> ms, dimensions |-> ds]

\* get_db commits a write: the request s, with the new state of the tables
\* added to the states committed while get_ontology_snapshot is reading
Committed(s, store) ==
    IF s.pc \in {"relationships", "metrics", "dimensions"}
    THEN [s EXCEPT !.stores = @ \cup {store}]
    ELSE s

\* Storage.list_entities / list_relationships / list_metrics / list_dimensions
\* with a status filter
list_entities_any_status(es, status) == es
list_entities(es, status) == SelectSeq(es, LAMBDA e : e.status = status)
list_relationships(rs, status) == {r \in rs : r.status = status}
list_metrics(ms, status) == {m \in ms : m.status = status}
list_dimensions(ds, status) == {d \in ds : d.status = status}

\* {e["name"]: e["pipeline_id"] for e in entities}: a later row overwrites
entity_pipeline_map(es) ==
    [n \in {es[i].name : i \in DOMAIN es} |->
        es[CHOOSE i \in DOMAIN es :
              es[i].name = n /\ \A j \in DOMAIN es : es[j].name = n => j <= i].pipeline_id]

\* {e["name"]: e for e in ontology["entities"]} and the like
entities_by_name(es) ==
    [n \in {es[i].name : i \in DOMAIN es} |->
        es[CHOOSE i \in DOMAIN es :
              es[i].name = n /\ \A j \in DOMAIN es : es[j].name = n => j <= i]]
rows_by_name(rows) == [n \in {m.name : m \in rows} |-> CHOOSE m \in rows : m.name = n]

\* Storage.save_metric: the name column is unique
save_metric(metric) ==
    /\ \A m \in metrics : m.name # metric.name
    /\ metrics' = metrics \cup {metric}
    /\ sem' = Committed(sem, Store(entities, relationships, metrics \cup {metric}, dimensions))
    /\ UNCHANGED <<pipelines, nextPipeline, engineVars, connVars, ontVars, sched, authVars, relReq,
                   relationships, dimensions, lateVars>>

\* Storage.update_metric with {"status": status} (PUT /metric/{id}); None
\* (HTTP 404) without the row
update_metric(name, status) ==
    /\ \E m \in metrics : m.name = name
    /\ LET ms == {IF m.name = name THEN [m EXCEPT !.status = status] ELSE m : m \in metrics} IN
       /\ metrics' = ms
       /\ sem' = Committed(sem, Store(entities, relationships, ms, dimensions))
    /\ UNCHANGED <<pipelines, nextPipeline, engineVars, connVars, ontVars, sched, authVars, relReq,
                   relationships, dimensions, lateVars>>

\* Storage.update_entity with {"status": status} (PUT /entity/{id}); None
\* (HTTP 404) without the row
update_entity(entity_id, status) ==
    /\ \E i \in DOMAIN entities : entities[i].id = entity_id
    /\ LET es == [i \in DOMAIN entities |->
                     IF entities[i].id = entity_id
                     THEN [entities[i] EXCEPT !.status = status] ELSE entities[i]] IN
       /\ entities' = es
       /\ sem' = Committed(sem, Store(es, relationships, metrics, dimensions))
    /\ UNCHANGED <<pipelines, nextPipeline, engineVars, connVars, proposals, reviews, sched,
                   authVars, relReq, relationships, metrics, dimensions, lateVars>>

\* Storage.delete_entity (DELETE /entity/{id}): the entity row is deleted and
\* no other table is touched; False (HTTP 404) without the row
delete_entity(entity_id) ==
    /\ \E i \in DOMAIN entities : entities[i].id = entity_id
    /\ LET es == SelectSeq(entities, LAMBDA e : e.id # entity_id) IN
       /\ entities' = es
       /\ sem' = Committed(sem, Store(es, relationships, metrics, dimensions))
    /\ UNCHANGED <<pipelines, nextPipeline, engineVars, connVars, proposals, reviews, sched,
                   authVars, relReq, relationships, metrics, dimensions, lateVars>>

\* Storage.save_relationship: the name column is unique
save_relationship(rel) ==
    /\ \A r \in relationships : r.name # rel.name
    /\ relationships' = relationships \cup {rel}
    /\ sem' = Committed(sem, Store(entities, relationships \cup {rel}, metrics, dimensions))
    /\ UNCHANGED <<pipelines, nextPipeline, engineVars, connVars, ontVars, sched, authVars, relReq,
                   metrics, dimensions, lateVars>>

\* Storage.save_dimension: the name column is unique
save_dimension(dim) ==
    /\ \A d \in dimensions : d.name # dim.name
    /\ dimensions' = dimensions \cup {dim}
    /\ sem' = Committed(sem, Store(entities, relationships, metrics, dimensions \cup {dim}))
    /\ UNCHANGED <<pipelines, nextPipeline, engineVars, connVars, ontVars, sched, authVars, relReq,
                   relationships, metrics, lateVars>>

\* get_ontology_snapshot, line 596: list_entities(status="active"), and the
\* entity_pipeline_map of line 600 computed from it
snapshot_list_entities(kind, metric_names, dimension_names) ==
    /\ sem.pc = "idle"
    /\ LET es == list_entities(entities, "active") IN
       sem' = [NoSem EXCEPT !.pc = "relationships", !.kind = kind,
                            !.metrics = metric_names, !.dimensions = dimension_names,
                            !.snapshot.entities = es,
                            !.stores = {Store(entities, relationships, metrics, dimensions)},
                            !.snapshot.entity_pipeline_map = entity_pipeline_map(es)]
    /\ UNCHANGED <<pipelines, nextPipeline, engineVars, connVars, ontVars, sched, authVars, relReq,
                   relationships, metrics, dimensions, lateVars>>

\* line 597: list_relationships(status="active")
snapshot_list_relationships ==
    /\ sem.pc = "relationships"
    /\ sem' = [sem EXCEPT !.pc = "metrics",
                          !.snapshot.relationships = list_relationships(relationships, "active")]
    /\ UNCHANGED <<pipelines, nextPipeline, engineVars, connVars, ontVars, sched, authVars, relReq,
                   relationships, metrics, dimensions, lateVars>>

\* line 613: list_metrics(status="active")
snapshot_list_metrics ==
    /\ sem.pc = "metrics"
    /\ sem' = [sem EXCEPT !.pc = "dimensions",
                          !.snapshot.metrics = list_metrics(metrics, "active")]
    /\ UNCHANGED <<pipelines, nextPipeline, engineVars, connVars, ontVars, sched, authVars, relReq,
                   relationships, metrics, dimensions, lateVars>>

\* line 614: list_dimensions(status="active"); GET /ontology returns the
\* snapshot, _resolve_structured goes on with it
snapshot_list_dimensions ==
    /\ sem.pc = "dimensions"
    /\ sem' = [sem EXCEPT !.pc = IF sem.kind = "query" THEN "resolve" ELSE "done",
                          !.snapshot.dimensions = list_dimensions(dimensions, "active")]
    /\ UNCHANGED <<pipelines, nextPipeline, engineVars, connVars, ontVars, sched, authVars, relReq,
                   relationships, metrics, dimensions, lateVars>>

\* re.finditer(r"\$\{(\w+)\}", expr): the ${...} tokens of expr, in order
finditer(expr) == SelectSeq(expr, LAMBDA t : t.kind = "ref")

\* expr.replace(token, text): every occurrence of the token
RECURSIVE str_replace(_, _, _)
str_replace(expr, token, by) ==
    IF expr = <<>> THEN <<>>
    ELSE (IF Head(expr) = token THEN by ELSE <<Head(expr)>>)
         \o str_replace(Tail(expr), token, by)

\* f"({ref_expr})"
Parenthesized(expr) == <<Text("(")>> \o expr \o <<Text(")")>>

\* _resolve_metric: _seen is one set shared by the whole recursion and a name
\* is never removed from it; calls counts the invocations
RECURSIVE _resolve_metric(_, _, _)
RECURSIVE resolve_refs(_, _, _, _, _)
_resolve_metric(name, metrics_by_name, _seen) ==
    IF name \in _seen
    THEN [error |-> CircularMetric, expr |-> <<>>, entity |-> NoText, seen |-> _seen,
          calls |-> 1]
    ELSE IF name \notin DOMAIN metrics_by_name
    THEN [error |-> UnknownMetric, expr |-> <<>>, entity |-> NoText,
          seen |-> _seen \cup {name}, calls |-> 1]
    ELSE LET metric == metrics_by_name[name]
             r == resolve_refs(finditer(metric.expression), metric.expression,
                               metrics_by_name, _seen \cup {name}, 1)
         IN [r EXCEPT !.entity = IF r.error = "none" THEN metric.entity_name ELSE NoText]

\* the loop of lines 198-201 over the matches of the original expression
resolve_refs(refs, expr, metrics_by_name, _seen, calls) ==
    IF refs = <<>>
    THEN [error |-> "none", expr |-> expr, entity |-> NoText, seen |-> _seen, calls |-> calls]
    ELSE LET ref == _resolve_metric(Head(refs).text, metrics_by_name, _seen) IN
         IF ref.error # "none"
         THEN [ref EXCEPT !.calls = calls + ref.calls]
         ELSE resolve_refs(Tail(refs), str_replace(expr, Head(refs), Parenthesized(ref.expr)),
                           metrics_by_name, ref.seen, calls + ref.calls)

\* _resolve_dimension
_resolve_dimension(name, dimensions_by_name) ==
    IF name \notin DOMAIN dimensions_by_name
    THEN [error |-> "Unknown dimension", expr |-> <<>>, entity |-> NoText]
    ELSE [error |-> "none", expr |-> dimensions_by_name[name].expression,
          entity |-> dimensions_by_name[name].entity_name]

\* _resolve_structured, lines 58-62: the dimensions in request order
RECURSIVE resolve_dimensions(_, _)
resolve_dimensions(names, dimensions_by_name) ==
    IF names = <<>> THEN [error |-> "none", exprs |-> <<>>, entities |-> {}]
    ELSE LET d == _resolve_dimension(Head(names), dimensions_by_name)
             rest == resolve_dimensions(Tail(names), dimensions_by_name)
         IN IF d.error # "none" THEN [error |-> d.error, exprs |-> <<>>, entities |-> {}]
            ELSE IF rest.error # "none" THEN rest
            ELSE [error |-> "none", exprs |-> <<d.expr>> \o rest.exprs,
                  entities |-> {d.entity} \cup rest.entities]

\* _resolve_structured, lines 65-68: the metrics in request order, each with
\* a fresh _seen
RECURSIVE resolve_metrics(_, _)
resolve_metrics(names, metrics_by_name) ==
    IF names = <<>> THEN [error |-> "none", exprs |-> <<>>, entities |-> {}, calls |-> 0]
    ELSE LET m == _resolve_metric(Head(names), metrics_by_name, {})
             rest == resolve_metrics(Tail(names), metrics_by_name)
         IN IF m.error # "none"
            THEN [error |-> m.error, exprs |-> <<>>, entities |-> {}, calls |-> m.calls]
            ELSE IF rest.error # "none" THEN [rest EXCEPT !.calls = m.calls + rest.calls]
            ELSE [error |-> "none", exprs |-> <<m.expr>> \o rest.exprs,
                  entities |-> {m.entity} \cup rest.entities,
                  calls |-> m.calls + rest.calls]

\* _build_entity_table_map: the errors it can raise; the set of entity names
\* is iterated in hash order, so any failing entity can be the first
_build_entity_table_map(entity_names, by_name, ps) ==
    {"Unknown entity" : e \in {n \in entity_names : n \notin DOMAIN by_name}}
    \cup {"Pipeline not found" :
             e \in {n \in entity_names :
                       n \in DOMAIN by_name /\ by_name[n].pipeline_id \notin PipelineIdsIn(ps)}}

\* _build_join_graph, lines 254-273: the entities the BFS visits from visited
\* over the relationships with both endpoints among entity_names
RECURSIVE bfs(_, _, _)
bfs(visited, entity_names, rels) ==
    LET adj == {r \in rels : r.from_entity \in entity_names /\ r.to_entity \in entity_names}
        next == {e \in entity_names \ visited :
                    \E r \in adj : \/ r.from_entity \in visited /\ r.to_entity = e
                                   \/ r.to_entity \in visited /\ r.from_entity = e}
    IN IF next = {} THEN visited ELSE bfs(visited \cup next, entity_names, rels)

\* _build_join_graph: the tables of the FROM clause, root first; no check
\* follows the BFS
_build_join_graph(root, entity_names, rels) ==
    IF Cardinality(entity_names) = 1 THEN {root} ELSE bfs({root}, entity_names, rels)

\* the orders in which list_relationships can return the rows it read
Orderings(rels) ==
    {f \in [1..Cardinality(rels) -> rels] :
        \A i \in DOMAIN f : \A j \in DOMAIN f : i # j => f[i] # f[j]}

\* _build_join_graph, lines 242-248: adj[e], the relationships between
\* entity_names in list order, appended once for each end that is e
RECURSIVE adj(_, _, _)
adj(e, rel_list, entity_names) ==
    IF rel_list = <<>> THEN <<>>
    ELSE LET r0 == Head(rel_list)
             among == r0.from_entity \in entity_names /\ r0.to_entity \in entity_names
         IN (IF among /\ r0.from_entity = e THEN <<r0>> ELSE <<>>)
            \o (IF among /\ r0.to_entity = e THEN <<r0>> ELSE <<>>)
            \o adj(e, Tail(rel_list), entity_names)

\* a clause that always joins the to side of the relationship
JoinClause_to_side(entity, r0) == [entity |-> r0.to_entity, on |-> r0]
\* a LEFT JOIN <table of entity> ON from.from_column = to.to_column of on
JoinClause(entity, r0) == [entity |-> entity, on |-> r0]

\* lines 258-273: the loop over adj[current]; the side of the relationship
\* that is not visited is joined
RECURSIVE join_neighbours(_, _, _)
join_neighbours(current, edges, st) ==
    IF edges = <<>> THEN st
    ELSE LET r0 == Head(edges)
             st1 == IF r0.from_entity = current /\ r0.to_entity \notin st.visited
                    THEN [visited |-> st.visited \cup {r0.to_entity},
                          queue |-> Append(st.queue, r0.to_entity),
                          join_clauses |-> Append(st.join_clauses,
                                                  JoinClause(r0.to_entity, r0))]
                    ELSE IF r0.to_entity = current /\ r0.from_entity \notin st.visited
                    THEN [visited |-> st.visited \cup {r0.from_entity},
                          queue |-> Append(st.queue, r0.from_entity),
                          join_clauses |-> Append(st.join_clauses,
                                                  JoinClause(r0.from_entity, r0))]
                    ELSE st
         IN join_neighbours(current, Tail(edges), st1)

\* lines 256-273: while queue
RECURSIVE bfs_queue(_, _, _)
bfs_queue(st, rel_list, entity_names) ==
    IF st.queue = <<>> THEN st
    ELSE LET current == Head(st.queue) IN
         bfs_queue(join_neighbours(current, adj(current, rel_list, entity_names),
                                   [st EXCEPT !.queue = Tail(@)]),
                   rel_list, entity_names)

\* _build_join_graph: the join clauses that follow the table of root in
\* the FROM clause, in the order they are appended
join_clauses(root, entity_names, rel_list) ==
    IF Cardinality(entity_names) = 1 THEN <<>>
    ELSE bfs_queue([visited |-> {root}, queue |-> <<root>>, join_clauses |-> <<>>],
                   rel_list, entity_names).join_clauses

Raised_after_submit(error, calls) ==
    [sem EXCEPT !.pc = "done", !.error = error, !.calls = calls, !.submitted = TRUE]
Raised(error, calls) == [sem EXCEPT !.pc = "done", !.error = error, !.calls = calls]

\* _resolve_structured, lines 52-108, on the snapshot it read: ValueError is
\* HTTP 400; otherwise the SQL goes to QueryEngine.execute_query.  root is
\* list(entity_names)[0], the first name in hash order
resolve_structured ==
    /\ sem.pc = "resolve"
    /\ LET snap == sem.snapshot
           by_name == entities_by_name(snap.entities)
           dims == resolve_dimensions(sem.dimensions, rows_by_name(snap.dimensions))
           mets == resolve_metrics(sem.metrics, rows_by_name(snap.metrics))
           needed_entities == dims.entities \cup mets.entities
           errors == _build_entity_table_map(needed_entities, by_name, pipelines)
       IN IF dims.error # "none" THEN sem' = Raised(dims.error, 0)
          ELSE IF mets.error # "none" THEN sem' = Raised(mets.error, mets.calls)
          ELSE IF dims.exprs \o mets.exprs = <<>>
          THEN sem' = Raised("At least one metric or dimension is required", 0)
          ELSE IF errors # {} THEN \E e \in errors : sem' = Raised(e, mets.calls)
          ELSE \E root \in needed_entities : \E rel_list \in Orderings(snap.relationships) :
                  sem' = [sem EXCEPT !.pc = "done", !.exprs = dims.exprs \o mets.exprs,
                                     !.root = root,
                                     !.needed_entities = needed_entities,
                                     !.joined = _build_join_graph(root, needed_entities,
                                                                  snap.relationships),
                                     !.join_clauses = join_clauses(root, needed_entities,
                                                                   rel_list),
                                     !.submitted = TRUE, !.calls = mets.calls]
    /\ UNCHANGED <<pipelines, nextPipeline, engineVars, connVars, ontVars, sched, authVars, relReq,
                   relationships, metrics, dimensions, lateVars>>

\* the response is returned
sem_return ==
    /\ sem.pc = "done"
    /\ sem' = NoSem
    /\ UNCHANGED <<pipelines, nextPipeline, engineVars, connVars, ontVars, sched, authVars, relReq,
                   relationships, metrics, dimensions, lateVars>>

\* _heuristic_propose, lines 176-200: a column <ref>_id proposes a relationship
\* to the first of <ref>, <ref>s that names an active entity
RelationshipPayloads(pipeline, column, existing_names) ==
    LET entity_name == normalize_entity_name(pipeline.name)
        candidate == IF column = "customer_id" /\ "customer" \in existing_names THEN "customer"
                     ELSE IF column = "customer_id" /\ "customers" \in existing_names
                     THEN "customers" ELSE NoText
    IN IF candidate = NoText THEN <<>>
       ELSE <<[name |-> "orders_to_customers", from_entity |-> entity_name,
               to_entity |-> candidate, status |-> "active", proposed_by |-> "heuristic"]>>

\* propose_for_pipeline with require_auth set, for a pipeline whose metadata
\* has the column: the entity proposal and the relationship proposal are saved
\* as pending
propose_for_pipeline_column(pid, column) ==
    /\ pid \in PipelineIdsIn(pipelines)
    /\ LET pipeline == PipelineRow(pipelines, pid)
           existing == list_entities(entities, "active")
           rels == RelationshipPayloads(pipeline, column,
                                        {existing[i].name : i \in DOMAIN existing})
       IN /\ Len(proposals) + 1 + Len(rels) <= MaxProposals
          /\ proposals' = proposals
                \o <<[id |-> Len(proposals) + 1, proposal_type |-> "entity",
                      payload |-> EntityPayload(pipeline),
                      status |-> "pending", reviewed_by |-> NoText]>>
                \o [i \in DOMAIN rels |->
                       [id |-> Len(proposals) + 1 + i, proposal_type |-> "relationship",
                        payload |-> rels[i], status |-> "pending", reviewed_by |-> NoText]]
    /\ UNCHANGED <<pipelines, nextPipeline, engineVars, connVars, entities, reviews, sched, moreVars>>

NoRelReq == [pc |-> "idle", from_entity |-> NoText, to_entity |-> NoText, response |-> 0]

\* the check of lines 132-134 and 136-138: the entity exists and is active
EntityActive(es, name) ==
    \E i \in get_entity_by_name(es, name) : es[i].status = "active"

\* POST /relationship, lines 132-134: get_entity_by_name(from_entity), 400
\* unless it exists and is active
create_relationship_from(from_entity, to_entity) ==
    /\ relReq.pc \in {"idle", "done"}
    /\ relReq' = IF EntityActive(entities, from_entity)
                 THEN [pc |-> "to", from_entity |-> from_entity, to_entity |-> to_entity,
                       response |-> 0]
                 ELSE [pc |-> "done", from_entity |-> from_entity, to_entity |-> to_entity,
                       response |-> 400]
    /\ UNCHANGED <<pipelines, nextPipeline, engineVars, connVars, ontVars, sched, authVars,
                   relationships, metrics, dimensions, sem, lateVars>>

\* lines 136-138: get_entity_by_name(to_entity), 400 unless it exists and is
\* active
create_relationship_to ==
    /\ relReq.pc = "to"
    /\ relReq' = IF EntityActive(entities, relReq.to_entity)
                 THEN [relReq EXCEPT !.pc = "save"]
                 ELSE [relReq EXCEPT !.pc = "done", !.response = 400]
    /\ UNCHANGED <<pipelines, nextPipeline, engineVars, connVars, ontVars, sched, authVars,
                   relationships, metrics, dimensions, sem, lateVars>>

\* lines 140-150: Storage.save_relationship; IntegrityError (HTTP 500) when
\* the name is taken
create_relationship_save ==
    /\ relReq.pc = "save"
    /\ LET rel == [name |-> "orders_to_customers", from_entity |-> relReq.from_entity,
                   to_entity |-> relReq.to_entity, status |-> "active"]
       IN IF \A r \in relationships : r.name # rel.name
          THEN /\ relationships' = relationships \cup {rel}
               /\ sem' = Committed(sem, Store(entities, relationships \cup {rel}, metrics,
                                              dimensions))
               /\ relReq' = [relReq EXCEPT !.pc = "done", !.response = 200]
          ELSE /\ UNCHANGED <<relationships, sem>>
               /\ relReq' = [relReq EXCEPT !.pc = "done", !.response = 500]
    /\ UNCHANGED <<pipelines, nextPipeline, engineVars, connVars, ontVars, sched, authVars,
                   metrics, dimensions, lateVars>>

\* POST /metric, lines 174-188: 400 unless the entity exists and is active,
\* else save_metric (IntegrityError, HTTP 500, when the name is taken) and
\* record_event("metric_created"); the check, the save and the event are
\* taken in one step
create_metric(name, entity_name) ==
    /\ EntityActive(entities, entity_name)
    /\ \A m \in metrics : m.name # name
    /\ Len(events) < MaxEvents
    /\ LET ms == metrics \cup {[name |-> name, entity_name |-> entity_name,
                                expression |-> <<Text("COUNT(*)")>>, status |-> "active"]}
       IN /\ metrics' = ms
          /\ sem' = Committed(sem, Store(entities, relationships, ms, dimensions))
    /\ events' = record_event(events, "metric_created", NoId)
    /\ UNCHANGED <<pipelines, nextPipeline, engineVars, connVars, ontVars, sched, authVars,
                   relReq, relationships, dimensions, propReq, pw, upd>>

\* ------------------------------------------------------------ scheduler
\* _should_run comparing with > where the code has >=
should_run_strict(pipeline, now) ==
    LET interval == pipeline.schedule.interval
        last_run == pipeline.last_scheduled_run
    IN IF last_run = NoTime THEN TRUE
       ELSE CASE interval = "hourly" -> (now - last_run) > Hour
              [] interval = "daily" -> (now - last_run) > Day
              [] interval = "weekly" -> (now - last_run) > Week
              [] interval = "custom" -> (now - last_run) > Day
              [] OTHER -> FALSE

\* PipelineScheduler._should_run
should_run(pipeline, now) ==
    LET interval == pipeline.schedule.interval
        last_run == pipeline.last_scheduled_run
    IN IF last_run = NoTime THEN TRUE
       ELSE CASE interval = "hourly" -> (now - last_run) >= Hour
              [] interval = "daily" -> (now - last_run) >= Day
              [] interval = "weekly" -> (now - last_run) >= Week
              [] interval = "custom" -> (now - last_run) >= Day
              [] OTHER -> FALSE

\* the pipelines _check_scheduled_pipelines triggers, in list order
Triggered(ps, now) ==
    SelectSeq(ps, LAMBDA p : p.schedule.enabled /\ should_run(p, now))

\* the tasks created by asyncio.create_task that have not run yet; the event
\* loop runs them in creation order once the scheduler sleeps
PendingTasks == {r \in DOMAIN exec : exec[r].pc = "dispatched"}

\* one iteration of _schedule_loop: _check_scheduled_pipelines at `clock`
\* (a task is created for each triggered pipeline, then its last_scheduled_run
\* is set), then the sleep, which ends after the tasks created have run
schedule_loop(d) ==
    /\ sched.ticks < MaxTicks
    /\ PendingTasks = {}
    /\ LET now == clock
           due == Triggered(pipelines, now)
       IN /\ exec' = exec \o [i \in 1..Len(due) |->
                        [NewExec(due[i].id, "scheduler", now) EXCEPT !.pc = "dispatched"]]
          /\ pipelines' = [i \in DOMAIN pipelines |->
                IF pipelines[i].schedule.enabled /\ should_run(pipelines[i], now)
                THEN [pipelines[i] EXCEPT !.last_scheduled_run = now]
                ELSE pipelines[i]]
          /\ sched' = [ticks |-> sched.ticks + 1, at |-> now,
                       triggered |-> {due[i].id : i \in 1..Len(due)}]
    /\ clock' = clock + d
    /\ UNCHANGED <<nextPipeline, runs, lastQuery, connVars, ontVars, moreVars>>

\* an iteration of _schedule_loop in which update_pipeline raises for the
\* k-th triggered pipeline: its task has been created, the exception leaves
\* the for loop of _check_scheduled_pipelines and is logged by the loop
\* (lines 38-41), and the pipelines that follow in the list are not looked at
schedule_loop_raise(d, k) ==
    /\ sched.ticks < MaxTicks
    /\ PendingTasks = {}
    /\ LET now == clock
           due == Triggered(pipelines, now)
           updated == {due[i].id : i \in 1..(k - 1)}
       IN /\ k \in 1..Len(due)
          /\ exec' = exec \o [i \in 1..k |->
                        [NewExec(due[i].id, "scheduler", now) EXCEPT !.pc = "dispatched"]]
          /\ pipelines' = [i \in DOMAIN pipelines |->
                IF pipelines[i].id \in updated
                THEN [pipelines[i] EXCEPT !.last_scheduled_run = now]
                ELSE pipelines[i]]
          /\ sched' = [ticks |-> sched.ticks + 1, at |-> now,
                       triggered |-> {due[i].id : i \in 1..k}]
    /\ clock' = clock + d
    /\ UNCHANGED <<nextPipeline, runs, lastQuery, connVars, ontVars, moreVars>>

\* the task created by the scheduler runs: asyncio.to_thread hands
\* execute_pipeline to a worker thread
to_thread_start(r) ==
    /\ r = Min(PendingTasks \cup {r})
    /\ exec[r].pc = "dispatched"
    /\ exec' = [exec EXCEPT ![r].pc = "start"]
    /\ UNCHANGED <<pipelines, nextPipeline, runs, clock, lastQuery, otherVars>>

\* the task fails before execute_pipeline runs; nothing awaits the task
to_thread_fail(r) ==
    /\ r = Min(PendingTasks \cup {r})
    /\ exec[r].pc = "dispatched"
    /\ exec' = [exec EXCEPT ![r].pc = "done", ![r].outcome = "dispatch_failed"]
    /\ UNCHANGED <<pipelines, nextPipeline, runs, clock, lastQuery, otherVars>>

\* ------------------------------------------------------------ proposals
\* POST /ontology/propose, one store call a step: props are the proposals of
\* _heuristic_propose, saved the list returned so far, created the objects
\* that _materialize_proposal has saved
NoPropReq ==
    [pc |-> "idle", pipeline_id |-> NoId, auto_approve |-> FALSE, props |-> <<>>,
     saved |-> <<>>, created |-> <<>>, saved_prop |-> [id |-> NoId], response |-> 0]

\* propose_for_pipeline, lines 37-55: ValueError (HTTP 400) without the
\* pipeline; the active entities are listed, the proposals computed and
\* settings.require_auth read
propose_for_pipeline_start(pid, column) ==
    /\ propReq.pc \in {"idle", "done"}
    /\ IF pid \notin PipelineIdsIn(pipelines)
       THEN propReq' = [NoPropReq EXCEPT !.pc = "done", !.pipeline_id = pid, !.response = 400]
       ELSE LET pipeline == PipelineRow(pipelines, pid)
                existing == list_entities(entities, "active")
                rels == RelationshipPayloads(pipeline, column,
                                             {existing[i].name : i \in DOMAIN existing})
                props == <<[type |-> "entity", payload |-> EntityPayload(pipeline)]>>
                         \o [i \in DOMAIN rels |-> [type |-> "relationship", payload |-> rels[i]]]
            IN /\ Len(proposals) + Len(props) <= MaxProposals
               /\ Len(events) < MaxEvents
               /\ propReq' = [NoPropReq EXCEPT !.pc = "save", !.pipeline_id = pid,
                                               !.auto_approve = ~require_auth,
                                               !.props = props]
    /\ UNCHANGED <<pipelines, nextPipeline, engineVars, connVars, ontVars, sched, authVars,
                   semVars, events, pw, upd>>

\* lines 59-68: save_proposal of the next proposal, approved when
\* auto_approve and pending otherwise
propose_for_pipeline_save ==
    /\ propReq.pc = "save"
    /\ LET prop == propReq.props[Len(propReq.saved) + 1]
           saved_prop == [id |-> Len(proposals) + 1, proposal_type |-> prop.type,
                          payload |-> prop.payload,
                          status |-> IF propReq.auto_approve THEN "approved" ELSE "pending",
                          reviewed_by |-> NoText]
       IN /\ proposals' = Append(proposals, saved_prop)
          /\ propReq' =
                IF propReq.auto_approve
                THEN [propReq EXCEPT !.pc = "materialize", !.saved_prop = saved_prop]
                ELSE [propReq EXCEPT !.saved = Append(@, saved_prop),
                                     !.pc = IF Len(propReq.saved) + 1 = Len(propReq.props)
                                            THEN "return" ELSE "save"]
    /\ UNCHANGED <<pipelines, nextPipeline, engineVars, connVars, entities, reviews, sched,
                   authVars, semVars, events, pw, upd>>

\* a loop that appends the saved proposal without materializing it
propose_for_pipeline_materialize_skipped ==
    /\ propReq.pc = "materialize"
    /\ propReq' = [propReq EXCEPT !.saved = Append(@, propReq.saved_prop),
                                  !.pc = IF Len(propReq.saved) + 1 = Len(propReq.props)
                                         THEN "return" ELSE "save"]
    /\ UNCHANGED <<pipelines, nextPipeline, engineVars, connVars, ontVars, sched, authVars,
                   semVars, events, pw, upd>>

\* lines 70-73 and _materialize_proposal: save_entity or save_relationship of
\* the payload with a fresh id, then saved.append; IntegrityError when the
\* name is taken leaves the call, and the route answers HTTP 500
propose_for_pipeline_materialize ==
    /\ propReq.pc = "materialize"
    /\ LET n == Len(propReq.saved) + 1
           prop == propReq.props[n]
           next == [propReq EXCEPT !.saved = Append(@, propReq.saved_prop),
                                   !.created = Append(@, prop),
                                   !.pc = IF n = Len(propReq.props) THEN "return" ELSE "save"]
           raised == [propReq EXCEPT !.pc = "done", !.response = 500]
       IN IF prop.type = "entity"
          THEN LET entity == [id |-> Len(entities) + 1, name |-> prop.payload.name,
                              pipeline_id |-> prop.payload.pipeline_id,
                              status |-> prop.payload.status,
                              proposed_by |-> prop.payload.proposed_by]
               IN /\ IF save_entity_ok(entities, entity)
                     THEN /\ entities' = save_entity(entities, entity)
                          /\ sem' = Committed(sem, Store(entities', relationships, metrics,
                                                         dimensions))
                          /\ propReq' = next
                     ELSE /\ UNCHANGED <<entities, sem>>
                          /\ propReq' = raised
                  /\ UNCHANGED relationships
          ELSE LET rel == [name |-> prop.payload.name, from_entity |-> prop.payload.from_entity,
                           to_entity |-> prop.payload.to_entity, status |-> prop.payload.status]
               IN /\ IF \A r \in relationships : r.name # rel.name
                     THEN /\ relationships' = relationships \cup {rel}
                          /\ sem' = Committed(sem, Store(entities, relationships', metrics,
                                                         dimensions))
                          /\ propReq' = next
                     ELSE /\ UNCHANGED <<relationships, sem>>
                          /\ propReq' = raised
                  /\ UNCHANGED entities
    /\ UNCHANGED <<pipelines, nextPipeline, engineVars, connVars, proposals, reviews, sched,
                   authVars, metrics, dimensions, relReq, events, pw, upd>>

\* routes/ontology.py lines 315-316: record_event("ontology_proposed"), and
\* the saved proposals are returned
propose_for_pipeline_return ==
    /\ propReq.pc = "return"
    /\ propReq' = [propReq EXCEPT !.pc = "done", !.response = 200]
    /\ events' = record_event(events, "ontology_proposed", propReq.pipeline_id)
    /\ UNCHANGED <<pipelines, nextPipeline, engineVars, connVars, ontVars, sched, authVars,
                   semVars, pw, upd>>

\* ------------------------------------------------------------ parallel write
\* the chunks of a source, each with its number of rows
Chunkings == UNION {[1..n -> {1, 2}] : n \in 0..MaxChunks}

\* str(e) of the exception raised by the write of chunk chunk_num
ChunkErrors == <<"chunk 0 failed", "chunk 1 failed", "chunk 2 failed">>

\* _write_s3_parallel, lines 383-390
workers_for(total_chunks) ==
    IF total_chunks < 10 THEN 2
    ELSE IF total_chunks < 100 THEN 5
    ELSE IF total_chunks < 1000 THEN 10
    ELSE 20

NoResult ==
    [total_rows |-> 0, total_chunks |-> 0, files_written |-> <<>>, primary_file |-> NoFile,
     workers_used |-> 0]

\* task[i] is the state of the future of chunk_num i - 1, completed the
\* futures in the order they finished, collected how many of them the loop
\* over as_completed has taken
NoWrite ==
    [pc |-> "idle", run |-> NoId, chunks |-> <<>>, workers |-> 0, timestamp |-> NoTime,
     dest |-> "None", task |-> <<>>, completed |-> <<>>, collected |-> 0,
     files_written |-> <<>>, total_rows |-> 0, error |-> NoText, result |-> NoResult]

\* a file name without the chunk number
chunk_file_unnumbered(w, i) == [dest |-> w.dest, ts |-> w.timestamp, chunk |-> NoChunk]
\* lines 413-424: the file of a chunk is named by the second the call
\* started and the chunk number
chunk_file(w, i) == [dest |-> w.dest, ts |-> w.timestamp, chunk |-> i - 1]

\* write_destination_streaming with options.parallel (the default), lines
\* 370-436: the chunks are collected, the workers chosen and every chunk is
\* submitted to the pool
write_s3_parallel_submit(r, chunks) ==
    /\ exec[r].pc = "stream_write"
    /\ pw.pc \in {"idle", "returned", "raised"}
    /\ pw' = [NoWrite EXCEPT !.pc = "collecting", !.run = r, !.chunks = chunks,
                             !.workers = workers_for(Len(chunks)), !.timestamp = clock,
                             !.dest = exec[r].destination,
                             !.task = [i \in DOMAIN chunks |-> "queued"]]
    /\ exec' = [exec EXCEPT ![r].pc = "parallel_write"]
    /\ UNCHANGED <<pipelines, nextPipeline, runs, clock, lastQuery, connVars, ontVars, sched,
                   authVars, semVars, propReq, events, upd>>

\* a free worker takes the next task of the queue
write_chunk_task_begin ==
    /\ pw.pc \in {"collecting", "raising"}
    /\ Cardinality({i \in DOMAIN pw.task : pw.task[i] = "running"}) < pw.workers
    /\ \E i \in DOMAIN pw.task :
          /\ pw.task[i] = "queued"
          /\ \A j \in DOMAIN pw.task : pw.task[j] = "queued" => i <= j
          /\ pw' = [pw EXCEPT !.task[i] = "running"]
    /\ UNCHANGED <<pipelines, nextPipeline, engineVars, connVars, ontVars, sched,
                   authVars, semVars, propReq, events, upd>>

\* write_chunk_task, lines 413-424: _write_single_file returns or raises,
\* and the future is done
write_chunk_task_end(i, ok) ==
    /\ pw.pc \in {"collecting", "raising"}
    /\ i \in DOMAIN pw.task
    /\ pw.task[i] = "running"
    /\ pw' = [pw EXCEPT !.task[i] = IF ok THEN "ok" ELSE "failed",
                        !.completed = Append(@, i)]
    /\ UNCHANGED <<pipelines, nextPipeline, engineVars, connVars, ontVars, sched,
                   authVars, semVars, propReq, events, upd>>

\* a loop over as_completed that logs a failed chunk and goes on
as_completed_next_logging ==
    /\ pw.pc = "collecting"
    /\ pw.collected < Len(pw.completed)
    /\ LET i == pw.completed[pw.collected + 1] IN
       pw' = IF pw.task[i] = "ok"
             THEN [pw EXCEPT !.collected = @ + 1,
                             !.files_written = Append(@, chunk_file(pw, i)),
                             !.total_rows = @ + pw.chunks[i]]
             ELSE [pw EXCEPT !.collected = @ + 1]
    /\ UNCHANGED <<pipelines, nextPipeline, engineVars, connVars, ontVars, sched,
                   authVars, semVars, propReq, events, upd>>

\* lines 438-450: the loop over as_completed takes the next finished future;
\* its file is appended to files_written, or its exception is raised again
as_completed_next ==
    /\ pw.pc = "collecting"
    /\ pw.collected < Len(pw.completed)
    /\ LET i == pw.completed[pw.collected + 1] IN
       pw' = IF pw.task[i] = "ok"
             THEN [pw EXCEPT !.collected = @ + 1,
                             !.files_written = Append(@, chunk_file(pw, i)),
                             !.total_rows = @ + pw.chunks[i]]
             ELSE [pw EXCEPT !.collected = @ + 1, !.pc = "raising",
                             !.error = ChunkErrors[i]]
    /\ UNCHANGED <<pipelines, nextPipeline, engineVars, connVars, ontVars, sched,
                   authVars, semVars, propReq, events, upd>>

\* the exception leaves the with block: ThreadPoolExecutor.__exit__ waits for
\* every submitted task, then write_destination_streaming raises into
\* _execute_streaming
write_s3_parallel_raise ==
    /\ pw.pc = "raising"
    /\ \A i \in DOMAIN pw.task : pw.task[i] \in {"ok", "failed"}
    /\ pw' = [pw EXCEPT !.pc = "raised"]
    /\ exec' = [exec EXCEPT ![pw.run] = Raise(@, pw.error)]
    /\ UNCHANGED <<pipelines, nextPipeline, runs, clock, lastQuery, connVars, ontVars, sched,
                   authVars, semVars, propReq, events, upd>>

\* lines 452-460: every future was taken; the result is returned, and
\* _execute_streaming takes primary_file as the output_file of the run
write_s3_parallel_return ==
    /\ pw.pc = "collecting"
    /\ pw.collected = Len(pw.chunks)
    /\ LET result == [total_rows |-> pw.total_rows, total_chunks |-> Len(pw.chunks),
                      files_written |-> pw.files_written,
                      primary_file |-> IF pw.files_written # <<>>
                                       THEN pw.files_written[1] ELSE NoFile,
                      workers_used |-> pw.workers]
       IN /\ pw' = [pw EXCEPT !.pc = "returned", !.result = result]
          /\ exec' = [exec EXCEPT ![pw.run].pc = "stream_complete",
                                  ![pw.run].output = result.primary_file]
    /\ UNCHANGED <<pipelines, nextPipeline, runs, clock, lastQuery, connVars, ontVars, sched,
                   authVars, semVars, propReq, events, upd>>

\* ------------------------------------------------- Storage.update_pipeline
\* Storage.get_pipeline: None (the empty sequence), or row.to_dict() with the
\* runs of the pipeline attached in id order
get_pipeline(ps, rs, pid) ==
    IF pid \notin PipelineIdsIn(ps) THEN <<>>
    ELSE <<DictUpdate(PipelineRow(ps, pid), [runs |-> RunsOf(rs, pid)])>>

\* the loop of update_pipeline over updates.items() on the row object of the
\* session: a key that is no attribute of the row is skipped
ApplyPipelineUpdates(row, updates) ==
    [k \in DOMAIN row |-> IF k \in DOMAIN updates THEN updates[k] ELSE row[k]]

\* the columns the flush of the session writes: the attributes of the row
\* object whose value differs from the loaded one
Dirty(row, updates) ==
    {k \in (DOMAIN row) \cap (DOMAIN updates) : updates[k] # row[k]}

UpdateDicts ==
    {[name |-> "orders"],
     [last_scheduled_run |-> 0],
     [schedule |-> [enabled |-> TRUE, interval |-> "hourly"]],
     [name |-> "orders", last_scheduled_run |-> 0],
     [owner |-> "ops"]}

NoUpdate ==
    [pc |-> "idle", calls |-> 0, pipeline_id |-> NoId, updates |-> EmptyDict,
     row |-> <<>>, result |-> <<>>]

\* update_pipeline, lines 56-59: the session of the call is opened and the row
\* is queried; no row -> None. Otherwise the loop of lines 60-72 sets the
\* attributes of the row object, which the session holds until its flush
update_pipeline_query(pid, updates) ==
    /\ upd.pc \in {"idle", "returned", "raised"}
    /\ upd.calls < MaxUpdates
    /\ upd' = IF pid \notin PipelineIdsIn(pipelines)
              THEN [pc |-> "returned", calls |-> upd.calls + 1, pipeline_id |-> pid,
                    updates |-> updates, row |-> <<>>, result |-> <<>>]
              ELSE [pc |-> "get", calls |-> upd.calls + 1, pipeline_id |-> pid,
                    updates |-> updates, row |-> <<PipelineRow(pipelines, pid)>>,
                    result |-> <<>>]
    /\ UNCHANGED <<pipelines, nextPipeline, engineVars, connVars, ontVars, sched, authVars,
                   semVars, propReq, events, pw>>

\* line 73: self.get_pipeline(pipeline_id) opens a session of its own
\* (get_db, database.py 60-72) and reads the tables; the attributes set on the
\* row object of the first session have not been flushed
update_pipeline_get ==
    /\ upd.pc = "get"
    /\ upd' = [upd EXCEPT !.pc = "commit",
                          !.result = get_pipeline(pipelines, runs, upd.pipeline_id)]
    /\ UNCHANGED <<pipelines, nextPipeline, engineVars, connVars, ontVars, sched, authVars,
                   semVars, propReq, events, pw>>

\* the with block of update_pipeline ends: session.commit() flushes the
\* UPDATE of the columns set to a new value, and the value of line 73 is
\* returned; an UPDATE that matches no row raises
update_pipeline_commit ==
    /\ upd.pc = "commit"
    /\ LET pid == upd.pipeline_id
           dirty == Dirty(upd.row[1], upd.updates)
           written == [k \in dirty |-> upd.updates[k]]
       IN IF dirty = {}
          THEN /\ upd' = [upd EXCEPT !.pc = "returned"]
               /\ UNCHANGED pipelines
          ELSE IF pid \notin PipelineIdsIn(pipelines)
          THEN /\ upd' = [upd EXCEPT !.pc = "raised", !.result = <<>>]
               /\ UNCHANGED pipelines
          ELSE /\ upd' = [upd EXCEPT !.pc = "returned"]
               /\ pipelines' = [i \in DOMAIN pipelines |->
                     IF pipelines[i].id = pid
                     THEN ApplyPipelineUpdates(pipelines[i], written)
                     ELSE pipelines[i]]
    /\ UNCHANGED <<nextPipeline, engineVars, connVars, ontVars, sched, authVars,
                   semVars, propReq, events, pw>>

\* ------------------------------------------------------------ specification
Init ==
    /\ pipelines = <<>>
    /\ nextPipeline = 1
    /\ runs = <<>>
    /\ exec = <<>>
    /\ clock = 0
    /\ lastQuery = NoQuery
    /\ connections = <<>>
    /\ nextConnection = 1
    /\ connReq = <<>>
    /\ proposals = <<>>
    /\ entities = <<>>
    /\ reviews = <<>>
    /\ sched = [ticks |-> 0, at |-> NoTime, triggered |-> {}]
    /\ apiKeys = <<>>
    /\ require_auth = FALSE
    /\ lastAuth = NoRequest
    /\ relationships = {}
    /\ metrics = {}
    /\ dimensions = {}
    /\ sem = NoSem
    /\ relReq = NoRelReq
    /\ propReq = NoPropReq
    /\ events = <<>>
    /\ pw = NoWrite
    /\ upd = NoUpdate

\* the engine, the pipeline routes and the query engine, within one second
Next ==
    \/ \E t \in SourceTypes : create_pipeline("Orders", t, NoConnection, FALSE, "daily")
    \/ \E p \in 1..MaxPipelines : delete_pipeline(p)
    \/ \E p \in 1..MaxPipelines : run_pipeline(p)
    \/ \E r \in DOMAIN exec : execute_pipeline_load(r)
    \/ \E r \in DOMAIN exec : execute_pipeline_add_run(r)
    \/ \E r \in DOMAIN exec : inmemory_fetch(r)
    \/ \E r \in DOMAIN exec : inmemory_progress_write(r)
    \/ \E r \in DOMAIN exec : inmemory_write(r)
    \/ \E r \in DOMAIN exec : inmemory_complete(r)
    \/ \E r \in DOMAIN exec : inmemory_metadata_update(r)
    \/ \E r \in DOMAIN exec : streaming_fetch(r)
    \/ \E r \in DOMAIN exec : streaming_progress(r)
    \/ \E r \in DOMAIN exec : streaming_write(r)
    \/ \E r \in DOMAIN exec : streaming_complete(r)
    \/ \E r \in DOMAIN exec : execute_pipeline_except(r)
    \/ \E p \in 1..MaxPipelines : execute_query(p)

Spec == Init /\ [][Next]_vars

\* the same, with the clock advancing
NextTimed == Next \/ Tick

SpecTimed == Init /\ [][NextTimed]_vars

\* connections and the pipelines that name them
NextConn ==
    \/ \E n \in ConnectionNames : create_connection(n)
    \/ \E n \in ConnectionNames \cup {NoConnection} :
          create_pipeline("Orders", "csv_url", n, FALSE, "daily")
    \/ \E p \in 1..MaxPipelines : delete_pipeline(p)
    \/ \E c \in 1..MaxConnections : delete_connection_get(c)
    \/ \E q \in DOMAIN connReq : delete_connection_check(q)
    \/ \E q \in DOMAIN connReq : delete_connection_delete(q)

SpecConn == Init /\ [][NextConn]_vars

\* proposals, their review and the entity table
NextOnt ==
    \/ \E n \in PipelineNames : create_pipeline(n, "csv_url", NoConnection, FALSE, "daily")
    \/ \E p \in 1..MaxPipelines : propose_for_pipeline(p)
    \/ \E p \in 1..MaxPipelines : create_entity("orders", p)
    \/ \E a \in {"approve", "reject"} : \E i \in 1..MaxProposals : review_proposal(a, i)
    \/ \E v \in DOMAIN reviews : review_update(v)
    \/ \E v \in DOMAIN reviews : review_materialize(v)

SpecOnt == Init /\ [][NextOnt]_vars

\* the scheduler loop, the pipelines it reads and the tasks it creates
NextSched ==
    \/ \E e \in BOOLEAN : \E i \in Intervals :
          create_pipeline("Orders", "csv_url", NoConnection, e, i)
    \/ \E d \in SleepDeltas : schedule_loop(d)
    \/ \E r \in DOMAIN exec : to_thread_start(r)
    \/ \E r \in DOMAIN exec : to_thread_fail(r)

SpecSched == Init /\ [][NextSched]_vars

\* the scheduler loop with the store failing in update_pipeline
NextSchedRaise ==
    \/ \E e \in BOOLEAN : \E i \in Intervals :
          create_pipeline("Orders", "csv_url", NoConnection, e, i)
    \/ \E d \in SleepDeltas : schedule_loop(d)
    \/ \E k \in 1..MaxPipelines : schedule_loop_raise(SleepSeconds, k)
    \/ \E r \in DOMAIN exec : to_thread_start(r)
    \/ \E r \in DOMAIN exec : to_thread_fail(r)

SpecSchedRaise == Init /\ [][NextSchedRaise]_vars

\* API keys and the endpoints guarded by them
NextAuth ==
    \/ enable_auth
    \/ \E k \in Keys : \E role \in Roles : create_api_key(k, role)
    \/ \E k \in Keys : \E i \in 1..MaxKeys : deactivate_api_key(k, i)
    \/ \E k \in Keys : post_connection_create(k, "warehouse")
    \/ \E k \in Keys : post_pipeline_create(k)
    \/ \E k \in Keys : \E p \in 1..MaxPipelines : delete_pipeline_request(k, p)

SpecAuth == Init /\ [][NextAuth]_vars

\* metric resolution: the request is answered on the tables it read, so the
\* writes are taken between requests
NextMetric ==
    \/ /\ sem.pc = "idle"
       /\ \E n \in MetricNames : \E x \in Expressions :
             save_metric([name |-> n, entity_name |-> "orders", expression |-> x,
                          status |-> "active"])
    \/ /\ sem.pc = "idle" /\ pipelines = <<>>
       /\ create_pipeline("Orders", "csv_url", NoConnection, FALSE, "daily")
    \/ sem.pc = "idle" /\ create_entity("orders", 1)
    \/ \E n \in MetricNames : snapshot_list_entities("query", <<n>>, <<>>)
    \/ snapshot_list_relationships
    \/ snapshot_list_metrics
    \/ snapshot_list_dimensions
    \/ resolve_structured
    \/ sem_return

SpecMetric == Init /\ [][NextMetric]_vars

\* semantic queries over two entities: a metric, a dimension and the
\* relationships between their entities
NextJoin ==
    \/ /\ sem.pc = "idle"
       /\ \E n \in PipelineNames : create_pipeline(n, "csv_url", NoConnection, FALSE, "daily")
    \/ /\ sem.pc = "idle"
       /\ \E n \in EntityNames : \E p \in 1..MaxPipelines : create_entity(n, p)
    \/ /\ sem.pc = "idle"
       /\ \E f \in EntityNames : \E t \in EntityNames :
             save_relationship([name |-> "orders_to_customers", from_entity |-> f,
                                to_entity |-> t, status |-> "active"])
    \/ /\ sem.pc = "idle"
       /\ \E e \in EntityNames :
             save_metric([name |-> "a", entity_name |-> e,
                          expression |-> <<Text("COUNT(*)")>>, status |-> "active"])
    \/ /\ sem.pc = "idle"
       /\ \E e \in EntityNames :
             save_dimension([name |-> "segment", entity_name |-> e,
                             expression |-> <<Text("segment")>>, status |-> "active"])
    \/ \E d \in {<<>>, <<"segment">>} : snapshot_list_entities("query", <<"a">>, d)
    \/ snapshot_list_relationships
    \/ snapshot_list_metrics
    \/ snapshot_list_dimensions
    \/ resolve_structured
    \/ sem_return

SpecJoin == Init /\ [][NextJoin]_vars

\* semantic queries over three entities of one pipeline: the metrics a and
\* b, a referring to b or not, a dimension, and up to three relationships
EntityOrder == <<"orders", "customers", "products">>
RelationshipNames == <<"orders_to", "customers_to", "products_to">>

NextFrom ==
    \/ /\ pipelines = <<>>
       /\ create_pipeline("Orders", "csv_url", NoConnection, FALSE, "daily")
    \/ \E i \in DOMAIN EntityOrder :
          /\ Len(entities) = i - 1
          /\ create_entity(EntityOrder[i], 1)
    \/ /\ sem.pc = "idle" /\ Len(entities) = Len(EntityOrder)
       /\ \E i \in DOMAIN EntityOrder : \E t \in DOMAIN EntityOrder :
             save_relationship([name |-> RelationshipNames[i], from_entity |-> EntityOrder[i],
                                to_entity |-> EntityOrder[t], status |-> "active"])
    \/ /\ sem.pc = "idle" /\ Len(entities) = Len(EntityOrder)
       /\ \/ \E x \in {<<Col("orders")>>, <<Ref("b")>>} :
                save_metric([name |-> "a", entity_name |-> "orders", expression |-> x,
                             status |-> "active"])
          \/ \E i \in DOMAIN EntityOrder :
                save_metric([name |-> "b", entity_name |-> EntityOrder[i],
                             expression |-> <<Col(EntityOrder[i])>>, status |-> "active"])
    \/ /\ sem.pc = "idle" /\ Len(entities) = Len(EntityOrder)
       /\ \E i \in DOMAIN EntityOrder :
             save_dimension([name |-> "segment", entity_name |-> EntityOrder[i],
                             expression |-> <<Col(EntityOrder[i])>>, status |-> "active"])
    \/ /\ Len(entities) = Len(EntityOrder)
       /\ \E m \in {<<"a">>, <<"a", "b">>} : \E d \in {<<>>, <<"segment">>} :
             snapshot_list_entities("query", m, d)
    \/ snapshot_list_relationships
    \/ snapshot_list_metrics
    \/ snapshot_list_dimensions
    \/ resolve_structured
    \/ sem_return

SpecFrom == Init /\ [][NextFrom]_vars

\* GET /ontology while the ontology tables are written; the entity is created
\* between requests
NextSnap ==
    \/ /\ sem.pc = "idle" /\ pipelines = <<>>
       /\ create_pipeline("Orders", "csv_url", NoConnection, FALSE, "daily")
    \/ sem.pc = "idle" /\ create_entity("orders", 1)
    \/ \E status \in {"active", "inactive"} : update_entity(1, status)
    \/ save_relationship([name |-> "orders_to_customers", from_entity |-> "orders",
                          to_entity |-> "customers", status |-> "active"])
    \/ save_metric([name |-> "a", entity_name |-> "orders",
                    expression |-> <<Text("COUNT(*)")>>, status |-> "active"])
    \/ \E status \in {"active", "inactive"} : update_metric("a", status)
    \/ save_dimension([name |-> "segment", entity_name |-> "orders",
                       expression |-> <<Text("segment")>>, status |-> "active"])
    \/ snapshot_list_entities("snapshot", <<>>, <<>>)
    \/ snapshot_list_relationships
    \/ snapshot_list_metrics
    \/ snapshot_list_dimensions
    \/ sem_return

SpecSnap == Init /\ [][NextSnap]_vars

\* the ways a relationship is created: POST /relationship and the review of a
\* relationship proposal, while entities are created and made inactive
NextRel ==
    \/ create_pipeline("Orders", "csv_url", NoConnection, FALSE, "daily")
    \/ \E n \in EntityNames : create_entity(n, 1)
    \/ \E e \in 1..MaxEntities : update_entity(e, "inactive")
    \/ \E p \in 1..MaxPipelines : propose_for_pipeline_column(p, "customer_id")
    \/ \E i \in 1..MaxProposals : review_proposal("approve", i)
    \/ \E v \in DOMAIN reviews : review_update(v)
    \/ \E v \in DOMAIN reviews : review_materialize(v)
    \/ \E f \in EntityNames : create_relationship_from(f, "customers")
    \/ create_relationship_to
    \/ create_relationship_save

SpecRel == Init /\ [][NextRel]_vars

\* the life of an entity: created, made inactive or active again, deleted,
\* while relationships and metrics are created on it, and GET /ontology
\* answered between the writes; ids are fresh, so entities are created while
\* the ids are 1..Len
NextLife ==
    \/ /\ sem.pc = "idle" /\ pipelines = <<>>
       /\ create_pipeline("Orders", "csv_url", NoConnection, FALSE, "daily")
    \/ /\ sem.pc = "idle"
       /\ \A i \in DOMAIN entities : entities[i].id <= Len(entities)
       /\ \E n \in EntityNames : create_entity(n, 1)
    \/ /\ sem.pc = "idle"
       /\ \E e \in 1..MaxEntities : \E status \in {"active", "inactive"} :
             update_entity(e, status)
    \/ /\ sem.pc = "idle"
       /\ \E e \in 1..MaxEntities : delete_entity(e)
    \/ /\ sem.pc = "idle"
       /\ \E f \in EntityNames : \E t \in EntityNames : create_relationship_from(f, t)
    \/ sem.pc = "idle" /\ create_relationship_to
    \/ sem.pc = "idle" /\ create_relationship_save
    \/ /\ sem.pc = "idle"
       /\ \E e \in EntityNames : create_metric("a", e)
    \/ snapshot_list_entities("snapshot", <<>>, <<>>)
    \/ snapshot_list_relationships
    \/ snapshot_list_metrics
    \/ snapshot_list_dimensions
    \/ sem_return

SpecLife == Init /\ [][NextLife]_vars

\* POST /ontology/propose in dev mode and with REQUIRE_AUTH set, on stores
\* with and without the entities the proposals name; the setting is fixed
\* while a request is answered
NextPropose ==
    \/ \E n \in PipelineNames : create_pipeline(n, "csv_url", NoConnection, FALSE, "daily")
    \/ \E n \in EntityNames : \E p \in 1..MaxPipelines : create_entity(n, p)
    \/ propReq.pc \in {"idle", "done"} /\ enable_auth
    \/ \E p \in 1..MaxPipelines : \E c \in {"customer_id", "amount"} :
          propose_for_pipeline_start(p, c)
    \/ propose_for_pipeline_save
    \/ propose_for_pipeline_materialize
    \/ propose_for_pipeline_return

SpecPropose == Init /\ [][NextPropose]_vars

\* queries over the listed pipelines, whose names are given as text; the
\* second pipeline streams its source, of no chunk or one, through the
\* parallel write; one of the two pipelines is run
NextQuery ==
    \/ /\ pipelines = <<>>
       /\ \E n \in Names : create_pipeline(n, "csv_url", NoConnection, FALSE, "daily")
    \/ /\ pipelines # <<>>
       /\ create_pipeline(<<"a">>, "synthetic", NoConnection, FALSE, "daily")
    \/ /\ exec = <<>>
       /\ \E p \in 1..MaxPipelines : run_pipeline(p)
    \/ \E r \in DOMAIN exec :
          \/ execute_pipeline_load(r)
          \/ execute_pipeline_add_run(r)
          \/ inmemory_fetch(r)
          \/ inmemory_progress_write(r)
          \/ inmemory_write(r)
          \/ inmemory_complete(r)
          \/ inmemory_metadata_update(r)
          \/ streaming_fetch(r)
          \/ streaming_progress(r)
          \/ \E chunks \in {<<>>, <<1>>} : write_s3_parallel_submit(r, chunks)
          \/ streaming_complete(r)
          \/ execute_pipeline_except(r)
    \/ write_chunk_task_begin
    \/ \E ok \in BOOLEAN : write_chunk_task_end(1, ok)
    \/ as_completed_next
    \/ write_s3_parallel_raise
    \/ write_s3_parallel_return
    \/ \E pids \in {<<1>>, <<2>>, <<1, 2>>, <<2, 1>>} : execute_query_pipelines(pids)

SpecQuery == Init /\ [][NextQuery]_vars

\* the routes that are to leave a platform event: pipeline create, run and
\* query, and POST /entity
NextEvents ==
    \/ /\ pipelines = <<>>
       /\ create_pipeline("Orders", "csv_url", NoConnection, FALSE, "daily")
    \/ \E p \in 1..MaxPipelines : run_pipeline(p)
    \/ \E r \in DOMAIN exec :
          \/ execute_pipeline_load(r)
          \/ execute_pipeline_add_run(r)
          \/ inmemory_fetch(r)
          \/ inmemory_progress_write(r)
          \/ inmemory_write(r)
          \/ inmemory_complete(r)
          \/ inmemory_metadata_update(r)
          \/ execute_pipeline_except(r)
    \/ \E p \in 1..MaxPipelines : execute_query(p)
    \/ \E n \in EntityNames : \E p \in 1..MaxPipelines : create_entity(n, p)

SpecEvents == Init /\ [][NextEvents]_vars

\* a streaming pipeline whose chunks are written in parallel
NextParallel ==
    \/ /\ pipelines = <<>>
       /\ create_pipeline("Orders", "synthetic", NoConnection, FALSE, "daily")
    \/ /\ exec = <<>>
       /\ \E p \in 1..MaxPipelines : run_pipeline(p)
    \/ \E r \in DOMAIN exec :
          \/ execute_pipeline_load(r)
          \/ execute_pipeline_add_run(r)
          \/ streaming_fetch(r)
          \/ streaming_progress(r)
          \/ \E chunks \in Chunkings : write_s3_parallel_submit(r, chunks)
          \/ streaming_complete(r)
          \/ execute_pipeline_except(r)
    \/ write_chunk_task_begin
    \/ \E i \in 1..MaxChunks : \E ok \in BOOLEAN : write_chunk_task_end(i, ok)
    \/ as_completed_next
    \/ write_s3_parallel_raise
    \/ write_s3_parallel_return
    \/ Tick

SpecParallel == Init /\ [][NextParallel]_vars

\* the parallel write up to the choice of the workers, for sources of 0 to
\* MaxChunkCount chunks of one row
NextWorkers ==
    \/ /\ pipelines = <<>>
       /\ create_pipeline("Orders", "synthetic", NoConnection, FALSE, "daily")
    \/ /\ exec = <<>>
       /\ \E p \in 1..MaxPipelines : run_pipeline(p)
    \/ \E r \in DOMAIN exec :
          \/ execute_pipeline_load(r)
          \/ execute_pipeline_add_run(r)
          \/ streaming_fetch(r)
          \/ streaming_progress(r)
          \/ \E n \in 0..MaxChunkCount : write_s3_parallel_submit(r, [i \in 1..n |-> 1])
          \/ execute_pipeline_except(r)

SpecWorkers == Init /\ [][NextWorkers]_vars

\* Storage.update_pipeline beside the creation and the deletion of pipelines
NextUpdate ==
    \/ \E i \in Intervals : create_pipeline("Orders", "csv_url", NoConnection, FALSE, i)
    \/ \E p \in 1..MaxPipelines : delete_pipeline(p)
    \/ \E p \in 1..MaxPipelines : \E updates \in UpdateDicts :
          update_pipeline_query(p, updates)
    \/ update_pipeline_get
    \/ update_pipeline_commit

SpecUpdate == Init /\ [][NextUpdate]_vars

\* ------------------------------------------------------------ run claims
Terminal == {"success", "failed"}

\* the row of run id r after the step, if the step kept it
SameRunAfter(i, j) == runs'[j].run_id = runs[i].run_id

\* C1: the status of a run row changes only from running to success or from
\* running to failed; a row that is success or failed keeps its status.
C1_StatusMonotonic ==
    [][\A i \in DOMAIN runs : \A j \in DOMAIN runs' :
          SameRunAfter(i, j) =>
             \/ runs'[j].status = runs[i].status
             \/ runs[i].status = "running" /\ runs'[j].status \in Terminal]_vars

\* both transitions have happened: one execution succeeded, another failed
C1_Witness ==
    /\ \E i \in DOMAIN runs : runs[i].status = "success"
    /\ \E i \in DOMAIN runs : runs[i].status = "failed"

\* C2: once a run row is success or failed, no later update changes any of
\* its fields.
C2_TerminalRowFrozen ==
    [][\A i \in DOMAIN runs : \A j \in DOMAIN runs' :
          (SameRunAfter(i, j) /\ runs[i].status \in Terminal) => runs'[j] = runs[i]]_vars

C9_QueryReadsLatestSuccess ==
    [][(lastQuery' # lastQuery /\ lastQuery'.result = "ok") =>
          \E i \in DOMAIN runs :
             /\ runs[i].run_id = lastQuery'.run_id
             /\ runs[i].pipeline_id = lastQuery'.pipeline
             /\ runs[i].status = "success"
             /\ runs[i].output_file = lastQuery'.output_file
             /\ \A j \in DOMAIN runs :
                   (j > i /\ runs[j].pipeline_id = lastQuery'.pipeline)
                      => runs[j].status # "success"]_vars

\* a query answered from a success run while a later run of the same pipeline
\* is running or has failed
C9_Witness ==
    /\ lastQuery.result = "ok"
    /\ \E i, j \in DOMAIN runs :
          /\ i < j
          /\ runs[i].run_id = lastQuery.run_id
          /\ runs[i].status = "success"
          /\ runs[j].pipeline_id = lastQuery.pipeline
          /\ runs[j].status \in {"running", "failed"}

\* C10: an engine step of one execution appends or updates only the row of
\* its own run id and leaves every other row as it was; the row it appends
\* is a running row of its pipeline; and an execution that has returned has
\* left its row terminal whatever the state of the other executions.
C10_StepsTouchOwnRow ==
    \A r \in DOMAIN exec :
        exec'[r] # exec[r] =>
            /\ \A i \in DOMAIN runs :
                  runs[i].run_id # r => (i \in DOMAIN runs' /\ runs'[i] = runs[i])
            /\ \A j \in DOMAIN runs' :
                  j \notin DOMAIN runs =>
                     /\ runs'[j].run_id = r
                     /\ runs'[j].pipeline_id = exec[r].pipeline_id
                     /\ runs'[j].status = "running"

C10_ReturnedIsTerminal ==
    \A r \in DOMAIN exec : \A i \in DOMAIN runs :
        (exec[r].pc = "done" /\ runs[i].run_id = r) => runs[i].status \in Terminal

C4_InUseDeleteRefused ==
    [][\A q \in DOMAIN connReq :
          /\ (/\ connReq[q].pc = "check"
              /\ connReq'[q] # connReq[q]
              /\ list_pipelines_using_connection(pipelines, connReq[q].name) # {})
               => /\ connReq'[q].response = 409
                  /\ connReq'[q].pc = "done"
                  /\ connections' = connections
                  /\ pipelines' = pipelines
          /\ connReq[q].response = 409 => connReq'[q] = connReq[q]]_vars

\* a request was refused, and the connection and the pipeline naming it are
\* still stored
C4_Witness ==
    \E q \in DOMAIN connReq :
        /\ connReq[q].response = 409
        /\ connReq[q].id \in ConnectionIdsIn(connections)
        /\ list_pipelines_using_connection(pipelines, connReq[q].name) # {}

\* -------------------------------------------------------- proposal claims
\* C5: the status of a proposal changes only from pending to approved or from
\* pending to rejected; a review request made on a proposal that is not
\* pending answers "not pending" and changes no proposal and no entity.
C5_ProposalStatusFinal ==
    [][/\ \A i \in DOMAIN proposals :
             \/ proposals'[i].status = proposals[i].status
             \/ /\ proposals[i].status = "pending"
                /\ proposals'[i].status \in {"approved", "rejected"}
       /\ \A v \in DOMAIN reviews' :
             (/\ v \notin DOMAIN reviews
              /\ \E i \in DOMAIN proposals :
                    /\ proposals[i].id = reviews'[v].proposal
                    /\ proposals[i].status # "pending")
               => /\ reviews'[v].response = "not_pending"
                  /\ proposals' = proposals
                  /\ entities' = entities]_vars

\* C6: a proposal that approve_proposal has marked approved, once no review
\* of it is in progress, has the entity built from its payload in the table.
C6_ApprovedHasObject ==
    \A i \in DOMAIN proposals :
        (/\ proposals[i].status = "approved"
         /\ \A v \in DOMAIN reviews :
               reviews[v].proposal = proposals[i].id => reviews[v].pc = "done")
          => \E e \in DOMAIN entities :
                /\ entities[e].name = proposals[i].payload.name
                /\ entities[e].pipeline_id = proposals[i].payload.pipeline_id
                /\ entities[e].proposed_by = proposals[i].payload.proposed_by

\* ------------------------------------------------------- scheduler claims
\* C7: when the run the scheduler dispatched for a pipeline at some check
\* failed to be dispatched, last_scheduled_run of the pipeline is not the
\* time of that check.
C7_FailedDispatchNotAdvanced ==
    \A r \in DOMAIN exec :
        (exec[r].by = "scheduler" /\ exec[r].outcome = "dispatch_failed") =>
            \A i \in DOMAIN pipelines :
                pipelines[i].id = exec[r].pipeline_id =>
                    pipelines[i].last_scheduled_run # exec[r].dispatched_at

C11_PipelineRoutesEnforceRoles ==
    [][require_auth =>
          \A k \in Keys :
             LET role == get_api_key_record(apiKeys, k).role IN
             /\ (post_pipeline_create(k) /\ role = "reader")
                   => /\ lastAuth'.status = 403
                      /\ lastAuth'.detail = "Insufficient permissions"
                      /\ pipelines' = pipelines
             /\ (post_pipeline_create(k) /\ role = "writer")
                   => /\ lastAuth'.status = 200
                      /\ Len(pipelines') = Len(pipelines) + 1
             /\ \A p \in PipelineIdsIn(pipelines) :
                   /\ (delete_pipeline_request(k, p) /\ role = "writer")
                         => /\ lastAuth'.status = 403
                            /\ pipelines' = pipelines
                            /\ runs' = runs
                   /\ (delete_pipeline_request(k, p) /\ role = "admin")
                         => /\ lastAuth'.status = 200
                            /\ p \notin PipelineIdsIn(pipelines')]_vars

\* a request with key k to an endpoint guarded by require_role(R)
C12_GuardedRequest(k, R) ==
    \/ R = "admin" /\ \E role \in Roles : create_api_key(k, role)
    \/ R = "admin" /\ \E i \in 1..MaxKeys : deactivate_api_key(k, i)
    \/ R = "writer" /\ post_connection_create(k, "warehouse")

\* C12: with auth required, a request to an endpoint guarded by
\* require_role(R) runs the operation if and only if its key is an active
\* row whose role is at least R under reader < writer < admin; without a key
\* it is answered 401, with an unknown or deactivated key or a lower role 403,
\* and a rejected request changes neither the keys nor the connections.
C12_RoleHierarchy ==
    [][require_auth =>
          \A k \in Keys : \A R \in {"writer", "admin"} :
             C12_GuardedRequest(k, R) =>
                LET level(r) == CASE r = "reader" -> 0 [] r = "writer" -> 1
                                  [] r = "admin" -> 2
                    active == {i \in DOMAIN apiKeys : apiKeys[i].id = k /\ apiKeys[i].active}
                    enough == \E i \in active : level(apiKeys[i].role) >= level(R)
                IN /\ lastAuth'.ran <=> enough
                   /\ k = NoKey => lastAuth'.status = 401
                   /\ (k # NoKey /\ active = {}) => lastAuth'.status = 403
                   /\ (active # {} /\ ~enough)
                         => /\ lastAuth'.status = 403
                            /\ lastAuth'.detail = "Insufficient permissions"
                   /\ ~lastAuth'.ran => (apiKeys' = apiKeys /\ connections' = connections)]_vars

\* with auth required, an active writer key was refused on an admin endpoint
\* after an admin key had deactivated another key
C12_Witness ==
    /\ require_auth
    /\ lastAuth.route = "DELETE /admin/api-keys"
    /\ lastAuth.detail = "Insufficient permissions"
    /\ ~lastAuth.ran
    /\ get_api_key_record(apiKeys, lastAuth.key).role = "writer"

\* ---------------------------------------------------------- semantic claims
\* the metrics a metric of table T names in its expression
MetricRefs(T, n) ==
    UNION {{m.expression[i].text : i \in {j \in DOMAIN m.expression : m.expression[j].kind = "ref"}} :
              m \in {x \in T : x.name = n}}

\* the names reached from the names S through ${...} references
RECURSIVE MetricClosure(_, _)
MetricClosure(T, S) ==
    LET next == S \cup UNION {MetricRefs(T, n) : n \in S}
    IN IF next = S THEN S ELSE MetricClosure(T, next)

CycleReachable(T, n) ==
    \E m \in MetricClosure(T, {n}) : m \in MetricClosure(T, MetricRefs(T, m))
AllDefined(T, n) == MetricClosure(T, {n}) \subseteq {m.name : m \in T}

\* the expression of metric n with every ${name} replaced by the
\* parenthesized full expansion of name
RECURSIVE FullExpansion(_, _)
RECURSIVE ExpandTokens(_, _)
FullExpansion(T, n) == ExpandTokens(T, (CHOOSE m \in T : m.name = n).expression)
ExpandTokens(T, expr) ==
    IF expr = <<>> THEN <<>>
    ELSE (IF Head(expr).kind = "ref"
          THEN <<Text("(")>> \o FullExpansion(T, Head(expr).text) \o <<Text(")")>>
          ELSE <<Head(expr)>>)
         \o ExpandTokens(T, Tail(expr))

\* a request for one metric is resolved in this step
MetricResolved == sem.pc = "resolve" /\ sem'.pc = "done" /\ Len(sem.metrics) = 1

\* C13: when every metric reached from the requested one is defined and no
\* cycle of references is reachable from it, resolution raises neither
\* CircularMetric nor UnknownMetric and the expression it returns is the full
\* expansion, also when a metric is referenced twice or reached by two paths.
C13_AcyclicMetricResolves ==
    [][MetricResolved =>
          LET T == sem.snapshot.metrics
              n == sem.metrics[1]
          IN (AllDefined(T, n) /\ ~CycleReachable(T, n))
                => /\ sem'.error \notin {CircularMetric, UnknownMetric}
                   /\ sem'.submitted => sem'.exprs = <<FullExpansion(T, n)>>]_vars

\* C14 as stated: when a cycle of references is reachable from the requested
\* metric, resolution raises CircularMetric after at most one call per metric
\* and the failing one, and no SQL is submitted.
C14_CycleRaisesCircular ==
    [][MetricResolved =>
          LET T == sem.snapshot.metrics
              n == sem.metrics[1]
          IN CycleReachable(T, n)
                => /\ sem'.error = CircularMetric
                   /\ sem'.calls <= Cardinality(T) + 1
                   /\ ~sem'.submitted]_vars

\* C14 amended: when a cycle of references is reachable from the requested
\* metric, resolution raises CircularMetric, or UnknownMetric if it meets an
\* undefined reference first, after at most one call per metric and the
\* failing one, and no SQL is submitted; it is CircularMetric whenever every
\* metric reached is defined.
C14_CycleFailsFast ==
    [][MetricResolved =>
          LET T == sem.snapshot.metrics
              n == sem.metrics[1]
          IN CycleReachable(T, n)
                => /\ sem'.error \in {CircularMetric, UnknownMetric}
                   /\ AllDefined(T, n) => sem'.error = CircularMetric
                   /\ sem'.calls <= Cardinality(T) + 1
                   /\ ~sem'.submitted]_vars

\* a cycle through three metrics was detected on the fourth call, for an
\* entity whose pipeline exists
C14_Witness ==
    /\ sem.pc = "done"
    /\ sem.error = CircularMetric
    /\ sem.calls = 4
    /\ CycleReachable(sem.snapshot.metrics, sem.metrics[1])
    /\ sem.snapshot.entities # <<>>
    /\ pipelines # <<>>

\* the entities a request touches, from the snapshot it read
Touched(s) ==
    {m.entity_name : m \in {x \in s.snapshot.metrics : \E i \in DOMAIN s.metrics : s.metrics[i] = x.name}}
    \cup {d.entity_name : d \in {x \in s.snapshot.dimensions :
                                    \E i \in DOMAIN s.dimensions : s.dimensions[i] = x.name}}

\* the touched entities joined to the entities S by relationships, taken in
\* either direction, whose two endpoints are touched
RECURSIVE JoinClosure(_, _)
JoinClosure(s, S) ==
    LET next == S \cup {e \in Touched(s) :
                    \E r \in s.snapshot.relationships :
                       /\ {r.from_entity, r.to_entity} \subseteq Touched(s)
                       /\ \/ r.from_entity \in S /\ r.to_entity = e
                          \/ r.to_entity \in S /\ r.from_entity = e}
    IN IF next = S THEN S ELSE JoinClosure(s, next)

\* the errors raised before the join graph is built
EarlierErrors ==
    {"Unknown dimension", UnknownMetric, CircularMetric, "Unknown entity",
     "Pipeline not found", "At least one metric or dimension is required"}

\* C15: when the names of a request resolve and a touched entity is not
\* reachable from the first touched entity through relationships between
\* touched entities, the request fails with DisconnectedOntology and no SQL is
\* submitted to the query engine.
C15_DisconnectedFails ==
    [][(sem.pc = "resolve" /\ sem'.pc = "done" /\ sem'.error \notin EarlierErrors)
          => \A e \in Touched(sem) :
                e \notin JoinClosure(sem, {sem'.root})
                   => (sem'.error = "DisconnectedOntology" /\ ~sem'.submitted)]_vars

\* ---------------------------------------------------------- snapshot claims
\* get_ontology_snapshot on one state of the tables
SnapshotOf(store) ==
    LET es == SelectSeq(store.entities, LAMBDA e : e.status = "active") IN
    [entities |-> es,
     relationships |-> {r \in store.relationships : r.status = "active"},
     metrics |-> {m \in store.metrics : m.status = "active"},
     dimensions |-> {d \in store.dimensions : d.status = "active"},
     entity_pipeline_map |-> [n \in {es[i].name : i \in DOMAIN es} |->
                                 es[CHOOSE i \in DOMAIN es : es[i].name = n].pipeline_id]]

Returned == sem.pc = "done" /\ sem.kind = "snapshot"

\* C16: a returned snapshot holds only rows whose status is active, and the
\* keys of entity_pipeline_map are exactly the names of the returned entities,
\* each mapped to the pipeline_id of that entity.
C16_SnapshotActiveAndMapped ==
    Returned =>
       LET snap == sem.snapshot IN
       /\ \A i \in DOMAIN snap.entities : snap.entities[i].status = "active"
       /\ \A r \in snap.relationships \cup snap.metrics \cup snap.dimensions :
             r.status = "active"
       /\ DOMAIN snap.entity_pipeline_map = {snap.entities[i].name : i \in DOMAIN snap.entities}
       /\ \A i \in DOMAIN snap.entities :
             snap.entity_pipeline_map[snap.entities[i].name] = snap.entities[i].pipeline_id

\* a snapshot with its entity was returned after a metric had been made
\* inactive
C16_Witness ==
    /\ Returned
    /\ sem.snapshot.entities # <<>>
    /\ sem.snapshot.metrics = {}
    /\ \E m \in metrics : m.status = "inactive"
    /\ \E st \in sem.stores : \E m \in st.metrics : m.status = "inactive"

\* C17: a returned snapshot is the snapshot of one state of the tables that
\* was committed while get_ontology_snapshot ran.
C17_SnapshotReadConsistent ==
    Returned => \E store \in sem.stores : sem.snapshot = SnapshotOf(store)

\* ---------------------------------------------------------- more run claims
\* C18: a run row has completed_at set if and only if its status is success
\* or failed.
C18_CompletedIffTerminal ==
    \A i \in DOMAIN runs : (runs[i].completed_at # NoTime) <=> (runs[i].status \in Terminal)

\* one run was recorded as failed by the except block and another as success,
\* each with its completed_at
C18_Witness ==
    \E i \in DOMAIN runs : \E j \in DOMAIN runs :
       /\ runs[i].status = "failed" /\ runs[i].completed_at # NoTime
       /\ runs[j].status = "success" /\ runs[j].completed_at # NoTime

\* C19: once delete_pipeline(p) has returned, the store holds no run row of
\* p: every run row belongs to a pipeline that is still in the store (pipeline
\* ids are never reused).
C19_DeleteCascadesToRuns ==
    \A i \in DOMAIN runs : runs[i].pipeline_id \in PipelineIdsIn(pipelines)

\* ------------------------------------------------------ relationship claims
\* C20: when a relationship row is created, by POST /relationship or by
\* materializing a relationship proposal, its from_entity and its to_entity
\* both name an entity that exists with status active.
C20_EndpointsActiveAtCreation ==
    [][\A r \in relationships' \ relationships :
          \A n \in {r.from_entity, r.to_entity} :
             \E i \in DOMAIN entities : entities[i].name = n /\ entities[i].status = "active"]_vars


\* ------------------------------------------------------ entity lifecycle
\* C21: after any sequence of entity create, update and delete, every
\* relationship, metric and dimension of a returned ontology snapshot refers
\* only to entities that exist and are active.  Stated for the snapshots
\* that were read with no write committed in between, where the four lists
\* are those of one state of the tables.
C21_SnapshotRefersToActiveEntities ==
    (Returned /\ Cardinality(sem.stores) = 1) =>
       LET snap == sem.snapshot
           active == {snap.entities[i].name : i \in DOMAIN snap.entities}
       IN /\ \A r \in snap.relationships : {r.from_entity, r.to_entity} \subseteq active
          /\ \A m \in snap.metrics \cup snap.dimensions : m.entity_name \in active


C22_WitnessPending ==
    /\ propReq.pc = "done" /\ propReq.response = 200
    /\ ~propReq.auto_approve
    /\ propReq.saved # <<>>
    /\ \E i \in DOMAIN entities : entities[i].name = propReq.saved[1].payload.name


\* ----------------------------------------------------------- query claims
\* C23: for every pipeline name, the view under which execute_query
\* registers the pipeline's artifact is named by the table-name derivation of
\* the name, the value the create endpoint reports as table_name.
C23_ViewNamedByDerivation ==
    \A i \in DOMAIN lastQuery.views :
       lastQuery.views[i].view
          = sanitize_table_name(PipelineRow(pipelines, lastQuery.views[i].pipeline).name)


\* ----------------------------------------------------------- event claims
\* C24: every successful pipeline create, run trigger and query appends a
\* platform event of the matching type: once POST /pipeline/create has
\* answered, the log has a pipeline_created event of the new pipeline; once
\* POST /pipeline/{id}/run has answered, a pipeline_run_started event of the
\* pipeline; once a query has returned data, a query_executed event.
C24_RoutesEmitEvents ==
    [][/\ \A p \in PipelineIdsIn(pipelines') \ PipelineIdsIn(pipelines) :
             \E i \in DOMAIN events' :
                events'[i].event_type = "pipeline_created" /\ events'[i].pipeline_id = p
       /\ Len(exec') > Len(exec) =>
             \E i \in DOMAIN events' \ DOMAIN events :
                /\ events'[i].event_type = "pipeline_run_started"
                /\ events'[i].pipeline_id = exec'[Len(exec')].pipeline_id
       /\ (lastQuery' # lastQuery /\ lastQuery'.result = "ok") =>
             \E i \in DOMAIN events' \ DOMAIN events :
                events'[i].event_type = "query_executed"]_vars


C26_FilesWrittenDeterministic ==
    pw.pc = "returned" =>
       /\ pw.result.files_written = [i \in DOMAIN pw.chunks |-> chunk_file(pw, i)]
       /\ pw.chunks # <<>> => pw.result.primary_file = chunk_file(pw, 1)


\* a listed pipeline without data: it has no run with status success, or its
\* most recent success run has no output_file
LacksData(pid) ==
    /\ pid \in PipelineIdsIn(pipelines)
    /\ LET successful == {i \in DOMAIN runs :
                             runs[i].pipeline_id = pid /\ runs[i].status = "success"}
       IN \/ successful = {}
          \/ \E i \in successful :
                /\ \A j \in successful : j <= i
                /\ runs[i].output_file = NoFile

NoData == {"no_successful_runs", "no_output_file"}

\* C27 as stated: execute_query over pipelines of which one has no data
\* fails with NoData and executes no SQL, neither a CREATE VIEW nor the
\* caller's statement.  Stated for the calls in which every listed pipeline
\* is stored once under a name of its own that is not empty.
C27_NoDataExecutesNoSQL ==
    [][LET pids == lastQuery'.pipelines
           view(k) == PipelineRow(pipelines, pids[k]).name
       IN (/\ lastQuery' # lastQuery
           /\ \A j \in DOMAIN pids : pids[j] \in PipelineIdsIn(pipelines) /\ view(j) # <<>>
           /\ \A i \in DOMAIN pids : \A j \in DOMAIN pids :
                 i # j => table_name(view(i)) # table_name(view(j))
           /\ \E k \in DOMAIN pids : LacksData(pids[k]))
          => (/\ lastQuery'.result \in NoData
              /\ LacksData(lastQuery'.failed)
              /\ lastQuery'.views = <<>>
              /\ ~lastQuery'.executed)]_vars


\* ------------------------------------------------------- late connection claims
\* C28: in every interleaving of DELETE /connection/{id} with pipeline
\* creations, when the deletion of a connection commits (the row leaves the
\* table) no stored pipeline's source references that connection by name.
C28_DeleteCommitsUnreferenced ==
    [][\A q \in DOMAIN connReq :
          (/\ connReq[q].pc = "delete"
           /\ connReq'[q].response = 200
           /\ connections' # connections)
          => list_pipelines_using_connection(pipelines, connReq[q].name) = {}]_vars


\* ------------------------------------------------------- join graph claims
\* the entities whose tables the FROM clause of a request names
FromTables(s) == {s.root} \cup {s.join_clauses[i].entity : i \in DOMAIN s.join_clauses}

\* a structured query was resolved and its SQL was submitted
Submitted == sem.pc = "done" /\ sem.kind = "query" /\ sem.submitted

\* C29: in a structured semantic query the touched entities contain the
\* owning entity of every requested dimension, of every requested metric and
\* of every metric reached through ${...} expansion, so that every
\* entity_name.col reference of the resolved SELECT expressions names an
\* entity whose table is in the FROM/JOIN clause (checked where the BFS
\* reached every touched entity).
C29_TouchedCoversExpansion ==
    Submitted =>
       LET T == sem.snapshot.metrics
           reached == MetricClosure(T, {sem.metrics[i] : i \in DOMAIN sem.metrics})
       IN /\ Touched(sem) \subseteq sem.needed_entities
          /\ \A m \in T : m.name \in reached => m.entity_name \in sem.needed_entities
          /\ FromTables(sem) = sem.needed_entities
                => \A i \in DOMAIN sem.exprs : \A j \in DOMAIN sem.exprs[i] :
                      sem.exprs[i][j].kind = "col"
                         => sem.exprs[i][j].text \in FromTables(sem)


\* the touched entities are connected through relationships among themselves
TouchedConnected(s) == s.needed_entities \subseteq JoinClosure(s, {s.root})

\* C30: when the touched entities are connected through relationships among
\* themselves, the FROM clause names the table of the root entity once and
\* has exactly one LEFT JOIN for each other touched entity (n - 1 joins for
\* n entities); each ON condition is that of a relationship of the snapshot
\* whose two endpoints are touched, and one side of it is the root or an
\* entity joined earlier in the clause while the other is the entity joined.
C30_FromClauseSpansTouched ==
    (Submitted /\ TouchedConnected(sem)) =>
       LET jc == sem.join_clauses
           needed == sem.needed_entities
       IN /\ sem.root \in needed
          /\ Len(jc) = Cardinality(needed) - 1
          /\ \A i \in DOMAIN jc : jc[i].entity # sem.root
          /\ \A e \in needed \ {sem.root} :
                Cardinality({i \in DOMAIN jc : jc[i].entity = e}) = 1
          /\ \A i \in DOMAIN jc :
                LET r == jc[i].on
                    earlier == {sem.root} \cup {jc[k].entity : k \in 1..(i - 1)}
                IN /\ r \in sem.snapshot.relationships
                   /\ {r.from_entity, r.to_entity} \subseteq needed
                   /\ \/ r.from_entity \in earlier /\ r.to_entity = jc[i].entity
                      \/ r.to_entity \in earlier /\ r.from_entity = jc[i].entity

\* a query over three entities was submitted with two joins: the second
\* hangs on the entity joined first, not on the root, and one of the two
\* joins the from side of its relationship
C30_Witness ==
    /\ Submitted
    /\ TouchedConnected(sem)
    /\ Cardinality(sem.needed_entities) = 3
    /\ Len(sem.join_clauses) = 2
    /\ sem.root \notin {sem.join_clauses[2].on.from_entity, sem.join_clauses[2].on.to_entity}
    /\ \E i \in DOMAIN sem.join_clauses :
          sem.join_clauses[i].entity = sem.join_clauses[i].on.from_entity

\* a query over three entities with a relationship between each two of them
\* was submitted: the third relationship adds no join
C30_WitnessTriangle ==
    /\ Submitted
    /\ Cardinality(sem.needed_entities) = 3
    /\ Cardinality({{r.from_entity, r.to_entity} : r \in sem.snapshot.relationships}) = 3
    /\ \A r \in sem.snapshot.relationships : r.from_entity # r.to_entity
    /\ Len(sem.join_clauses) = 2


\* ------------------------------------------------------------ late run claims
\* C31: every run id handed out identifies, by the time its background
\* execution returns, a run row of its pipeline whose status is success or
\* failed: no triggered run is lost without a row and none is left running
\* by an execution that has finished.
C31_TriggeredRunRecorded ==
    [][\A r \in DOMAIN exec :
          (exec[r].pc # "done" /\ exec'[r].pc = "done")
             => LET i == RunRowIndex(runs', exec[r].pipeline_id, r)
                IN i # 0 /\ runs'[i].status \in Terminal]_vars


\* ------------------------------------------------------ late proposal claims
\* the review requests that created the ontology object of proposal prop_id
Materializations(prop_id) ==
    {v \in DOMAIN reviews : /\ reviews[v].proposal = prop_id
                            /\ reviews[v].action = "approve"
                            /\ reviews[v].response = "approved"}

\* C32: in every interleaving of concurrent review requests the payload of a
\* proposal is materialized at most once, and a proposal whose final status
\* is rejected (no review of it is in progress) has no materialized object.
C32_MaterializedAtMostOnce ==
    \A i \in DOMAIN proposals :
        /\ Cardinality(Materializations(proposals[i].id)) <= 1
        /\ (/\ proposals[i].status = "rejected"
            /\ \A v \in DOMAIN reviews :
                  reviews[v].proposal = proposals[i].id => reviews[v].pc = "done")
             => Materializations(proposals[i].id) = {}


\* C33: when two runs of a pipeline overlap and both succeed, the run whose
\* artifact execute_query reads afterwards is the one that completed last:
\* no success row of the pipeline has a later completed_at than the row read
\* (runs that do not overlap complete in the order they start).
C33_QueryReadsLastCompleted ==
    [][(lastQuery' # lastQuery /\ lastQuery'.result = "ok") =>
          \A i \in DOMAIN runs : \A j \in DOMAIN runs :
             (/\ runs[i].run_id = lastQuery'.run_id
              /\ runs[i].pipeline_id = lastQuery'.pipeline
              /\ runs[j].pipeline_id = lastQuery'.pipeline
              /\ runs[j].status = "success")
                => runs[j].completed_at <= runs[i].completed_at]_vars


\* C34: the artifact recorded as output_file of a success run is written by
\* that run alone: any two success runs, of one pipeline or of pipelines
\* sharing a destination, sequential or concurrent, have distinct URIs.
C34_ArtifactsDistinct ==
    \A i \in DOMAIN runs : \A j \in DOMAIN runs :
        (/\ i # j
         /\ runs[i].status = "success"
         /\ runs[j].status = "success"
         /\ runs[i].output_file # NoFile)
          => runs[i].output_file # runs[j].output_file


\* ----------------------------------------------------- late scheduler claims
\* C35: in every scheduler tick every enabled pipeline that is due is
\* dispatched, also when an error is raised while another pipeline is
\* checked, dispatched or updated in that tick.
C35_EveryDuePipelineDispatched ==
    [][sched'.ticks # sched.ticks =>
          \A i \in DOMAIN pipelines :
             (pipelines[i].schedule.enabled /\ should_run(pipelines[i], clock))
                => \E r \in DOMAIN exec' :
                      /\ r \notin DOMAIN exec
                      /\ exec'[r].pipeline_id = pipelines[i].id
                      /\ exec'[r].by = "scheduler"]_vars


\* ------------------------------------------------- late parallel write claims
\* sum(len(chunk) for chunk in all_chunks)
RECURSIVE RowsOf(_)
RowsOf(chunks) == IF chunks = <<>> THEN 0 ELSE Head(chunks) + RowsOf(Tail(chunks))

\* C36: when the parallel chunked write returns (no combine_chunks), every
\* chunk has been written exactly once: files_written has one entry per
\* chunk, the entries are pairwise distinct and are the files of the chunks,
\* total_chunks is the number of chunks and total_rows the sum of their row
\* counts, whatever the order in which the tasks finish.
C36_EveryChunkWrittenOnce ==
    pw.pc = "returned" =>
       LET res == pw.result
           files == res.files_written
       IN /\ Len(files) = Len(pw.chunks)
          /\ \A i \in DOMAIN files : \A j \in DOMAIN files : i # j => files[i] # files[j]
          /\ {files[i] : i \in DOMAIN files} = {chunk_file(pw, i) : i \in DOMAIN pw.chunks}
          /\ \A i \in DOMAIN pw.chunks : pw.task[i] = "ok"
          /\ res.total_chunks = Len(pw.chunks)
          /\ res.total_rows = RowsOf(pw.chunks)

\* a write of three chunks of different sizes on two workers returned, the
\* last chunk finishing before the first
C36_Witness ==
    /\ pw.pc = "returned"
    /\ pw.chunks = <<1, 2, 2>>
    /\ pw.workers = 2
    /\ pw.completed = <<2, 3, 1>>
    /\ pw.result.total_rows = 5


\* C38: the parallel chunked write uses 2 workers when the chunk count is
\* at most 10, 5 when it is at most 100, 10 when it is at most 1000 and 20
\* otherwise, and never more than 20.
C38_WorkersByChunkCount ==
    pw.pc = "collecting" =>
       LET total_chunks == Len(pw.chunks) IN
       /\ pw.workers = IF total_chunks <= 10 THEN 2
                       ELSE IF total_chunks <= 100 THEN 5
                       ELSE IF total_chunks <= 1000 THEN 10
                       ELSE 20
       /\ pw.workers <= 20


\* C37: update_pipeline(id, updates) on an existing pipeline returns the
\* record as it is after the updates: every updated field of the returned
\* record carries its new value, and the record equals what get_pipeline
\* returns after the call.
C37_UpdateReturnsUpdatedRecord ==
    [][(/\ upd.pc = "commit"
        /\ upd'.pc = "returned"
        /\ upd.pipeline_id \in PipelineIdsIn(pipelines'))
          => /\ upd'.result # <<>>
             /\ \A k \in (DOMAIN upd.updates) \cap (DOMAIN upd'.result[1]) :
                   upd'.result[1][k] = upd.updates[k]
             /\ upd'.result = get_pipeline(pipelines', runs', upd.pipeline_id)]_vars

====
